---- MODULE Spec2Model ----
(***************************************************************************)
(* Model of the yWriter 7 project codec of yw2html / PyWriter:             *)
(*   Yw7File.read, Yw7File.merge, Yw7File.write  (pywriter/yw/yw7_file.py) *)
(*   Splitter.split_scenes                   (pywriter/model/splitter.py)  *)
(* and of the template-based export:                                       *)
(*   FileExport.merge, _get_text, write (pywriter/file/file_export.py)     *)
(*   YwCnv.convert                      (pywriter/converter/yw_cnv.py)     *)
(*   YwCnvUi.export_from_yw             (test/yw2html.py)                  *)
(*                                                                         *)
(* Representation                                                          *)
(*   - A Python str is a sequence of one-character strings, so that        *)
(*     startswith, strip, split and join are computed, not assumed.        *)
(*   - An optional value is a sequence of length 0 or 1: None is << >>,    *)
(*     a present value v is << v >>.                                       *)
(*   - An id is a numeric string; int() and str() go through IdStr.        *)
(*   - An XML leaf element is Absent, or El(text) with text an optional    *)
(*     str (ElementTree gives text None for an empty element).             *)
(*   - Scene carries the start-time fields hour and minute that its        *)
(*     docstring lists (scene.py:54-55) and Yw7File reads and writes.      *)
(*   - The language and project variable handling of Yw7File               *)
(*     (languages, languageCode, countryCode, PROJECTVARS) and the project *)
(*     notes' fields are outside the model; the custom field allow-lists   *)
(*     of chapters, scenes and world elements are empty in Yw7File.        *)
(*   - Elements that write produces and read never looks at (SortOrder,    *)
(*     BelongsToChID, Ver, SpecificDateMode apart) are left out.           *)
(*   - The text of an export is the sequence of its template               *)
(*     applications: a Piece names the template, the entity and the scene  *)
(*     number and totals handed to it; the templates are given as the set  *)
(*     of the names that are not empty, a filter as the set of the ids it  *)
(*     rejects.                                                            *)
(*   - A failure of the disk during a write is an input of the call: of    *)
(*     os.replace, of the writing of the file, or of the second writing by *)
(*     _postprocess_xml_file, which leaves a file that is not well-formed. *)
(*   - Another program may take an entity out of the project file between  *)
(*     two calls of the instance (Remove); the instance is not told.       *)
(***************************************************************************)
EXTENDS Integers, Sequences, FiniteSets, TLC

VARIABLES
    file,        \* the project file on disk, as its parse result; None if missing
    bak,         \* the '.bak' sibling of the project file
    locked,      \* TRUE iff the '.lock' sibling exists
    tree,        \* Yw7File.tree, the XML element tree held in memory
    novel,       \* the instance variables of the Yw7File (target) instance
    source,      \* the Novel instance handed to merge
    pre,         \* what the last call found: the target as merge found it after
                 \* its own read, the novel as split_scenes found it and what
                 \* split_scenes returned
    op,          \* the last operation called
    ret,         \* its outcome: "ok", "error" (an ERROR message), "raised"
    rt,          \* progress of a read - write - read round trip
    exp,         \* the FileExport instance: its instance variables (target),
                 \* its templates and filters (cfg), the target file and its
                 \* '.bak' sibling, and the converter's newFile and the steps
                 \* its last convert went through
    gone,        \* the entities that another program removed from the project
                 \* file after the last read (ids), how far the instance is
                 \* since (0 no call, 1 read again, 2 written after that), and
                 \* the number of all removals
    afterMerge   \* TRUE iff the last call was a write and the call before it
                 \* a merge that returned its success message

vars == <<file, bak, locked, tree, novel, source, pre, op, ret, rt, afterMerge, exp, gone>>

----------------------------------------------------------------------------
(* Optional values *)

None == << >>

Some(v) == << v >>

IsNone(o) == o = << >>

Val(o) == o[1]

\* Python truthiness of an optional str or list
Truthy(o) == o # << >> /\ o[1] # << >>

\* Python truthiness of an optional bool
TruthyBool(o) == o = << TRUE >>

----------------------------------------------------------------------------
(* Python str operations on sequences of characters *)

startswith(s, p) == Len(s) >= Len(p) /\ SubSeq(s, 1, Len(p)) = p

Contains(s, c) == \E i \in 1..Len(s) : s[i] = c

RECURSIVE lstrip(_, _)
lstrip(s, chars) ==
    IF s # << >> /\ s[1] \in chars THEN lstrip(Tail(s), chars) ELSE s

RECURSIVE rstrip(_, _)
rstrip(s, chars) ==
    IF s # << >> /\ s[Len(s)] \in chars THEN rstrip(SubSeq(s, 1, Len(s) - 1), chars) ELSE s

strip(s, chars) == rstrip(lstrip(s, chars), chars)

Whitespace == {" ", "\n", "\t", "\r"}

\* s.split(c): always at least one part; ''.split(c) is ['']
RECURSIVE split(_, _)
split(s, c) ==
    IF \A i \in 1..Len(s) : s[i] # c
    THEN << s >>
    ELSE LET k == CHOOSE i \in 1..Len(s) : s[i] = c /\ \A j \in 1..(i - 1) : s[j] # c
         IN  << SubSeq(s, 1, k - 1) >> \o split(SubSeq(s, k + 1, Len(s)), c)

\* c.join(parts)
RECURSIVE join(_, _)
join(parts, c) ==
    IF parts = << >> THEN << >>
    ELSE IF Len(parts) = 1 THEN parts[1]
    ELSE parts[1] \o << c >> \o join(Tail(parts), c)

----------------------------------------------------------------------------
(* Ids: numeric strings *)

MaxId == 6

IdStr == << "1", "2", "3", "4", "5", "6", "7", "8", "9" >>

Ids == {IdStr[i] : i \in 1..MaxId}

int(s) == CHOOSE i \in 1..Len(IdStr) : IdStr[i] = s

str(i) == IdStr[i]

\* membership and index in a Python list
InList(x, lst) == \E i \in 1..Len(lst) : lst[i] = x

index(lst, x) == CHOOSE i \in 1..Len(lst) : lst[i] = x /\ \A j \in 1..(i - 1) : lst[j] # x

\* list.insert(j, x) with a 0-based position j <= len
insert(lst, j, x) == SubSeq(lst, 1, j) \o << x >> \o SubSeq(lst, j + 1, Len(lst))

Range(lst) == {lst[i] : i \in 1..Len(lst)}

----------------------------------------------------------------------------
(* Python dict: a function on the set of its keys *)

EmptyDict == [k \in {} |-> None]

Put(d, k, v) == [x \in (DOMAIN d) \cup {k} |-> IF x = k THEN v ELSE d[x]]

----------------------------------------------------------------------------
(* The domain model: freshly constructed entities *)

\* BasicElement(), used for project notes
BasicElement == [title |-> None, desc |-> None]

WorldElement ==
    [title |-> None, desc |-> None, image |-> None, tags |-> None, aka |-> None]

Character ==
    [title |-> None, desc |-> None, image |-> None, tags |-> None, aka |-> None,
     notes |-> None, bio |-> None, goals |-> None, fullName |-> None, isMajor |-> None]

Chapter ==
    [title |-> None, desc |-> None, chLevel |-> None, chType |-> None,
     suppressChapterTitle |-> None, isTrash |-> None, suppressChapterBreak |-> None,
     srtScenes |-> << >>]

Scene ==
    [title |-> None, desc |-> None, sceneContent |-> None, scType |-> None,
     doNotExport |-> None, status |-> None, tags |-> None, appendToPrev |-> None,
     goal |-> None, conflict |-> None, outcome |-> None,
     characters |-> None, locations |-> None, items |-> None,
     date |-> None, time |-> None, day |-> None, hour |-> None, minute |-> None,
     wordCount |-> 0, letterCount |-> 0]

\* the end of a match of '\[.+?\]' or '\/\*.+?\*\/' that begins at s[i], 0 if
\* there is none: '.' matches any character but the newline, and at least one
MarkupEnd(s, i) ==
    IF s[i] = "["
       /\ \E j \in (i + 2)..Len(s) : s[j] = "]" /\ \A k \in (i + 1)..(j - 1) : s[k] # "\n"
    THEN CHOOSE j \in (i + 2)..Len(s) :
             /\ s[j] = "]" /\ \A k \in (i + 1)..(j - 1) : s[k] # "\n"
             /\ \A m \in (i + 2)..(j - 1) : s[m] # "]"
    ELSE IF /\ s[i] = "/" /\ i < Len(s) /\ s[i + 1] = "*"
            /\ \E j \in (i + 3)..(Len(s) - 1) :
                   /\ s[j] = "*" /\ s[j + 1] = "/"
                   /\ \A k \in (i + 2)..(j - 1) : s[k] # "\n"
    THEN 1 + (CHOOSE j \in (i + 3)..(Len(s) - 1) :
                  /\ s[j] = "*" /\ s[j + 1] = "/"
                  /\ \A k \in (i + 2)..(j - 1) : s[k] # "\n"
                  /\ \A m \in (i + 3)..(j - 1) : ~(s[m] = "*" /\ s[m + 1] = "/"))
    ELSE 0

\* the characters U+2014 and U+2013, each one element of a text
Dashes == {"em dash", "en dash"}

\* ADDITIONAL_WORD_LIMITS.sub(' ', text): '--' and the dashes become a space
RECURSIVE ADDITIONAL_WORD_LIMITS(_, _)
ADDITIONAL_WORD_LIMITS(s, i) ==
    IF i > Len(s) THEN << >>
    ELSE IF s[i] = "-" /\ i < Len(s) /\ s[i + 1] = "-"
    THEN << " " >> \o ADDITIONAL_WORD_LIMITS(s, i + 2)
    ELSE IF s[i] \in Dashes THEN << " " >> \o ADDITIONAL_WORD_LIMITS(s, i + 1)
    ELSE << s[i] >> \o ADDITIONAL_WORD_LIMITS(s, i + 1)

\* NO_WORD_LIMITS.sub('', text): markup, comments, hyphens and a '>' at the
\* start of a line are dropped
RECURSIVE NO_WORD_LIMITS(_, _)
NO_WORD_LIMITS(s, i) ==
    IF i > Len(s) THEN << >>
    ELSE IF MarkupEnd(s, i) > 0 THEN NO_WORD_LIMITS(s, MarkupEnd(s, i) + 1)
    ELSE IF s[i] = "-" \/ (s[i] = ">" /\ (i = 1 \/ s[i - 1] = "\n"))
    THEN NO_WORD_LIMITS(s, i + 1)
    ELSE << s[i] >> \o NO_WORD_LIMITS(s, i + 1)

\* NON_LETTERS.sub('', text): markup, comments and line ends are dropped
RECURSIVE NON_LETTERS(_, _)
NON_LETTERS(s, i) ==
    IF i > Len(s) THEN << >>
    ELSE IF MarkupEnd(s, i) > 0 THEN NON_LETTERS(s, MarkupEnd(s, i) + 1)
    ELSE IF s[i] \in {"\n", "\r"} THEN NON_LETTERS(s, i + 1)
    ELSE << s[i] >> \o NON_LETTERS(s, i + 1)

\* len(text.split()): the runs of characters that are no whitespace
WordList(s) ==
    Cardinality({i \in 1..Len(s) :
                    s[i] \notin Whitespace /\ (i = 1 \/ s[i - 1] \in Whitespace)})

\* the word count the sceneContent setter computes
wordCount(text) == WordList(NO_WORD_LIMITS(ADDITIONAL_WORD_LIMITS(text, 1), 1))

\* the letter count the sceneContent setter computes
letterCount(text) == Len(NON_LETTERS(text, 1))

\* the setter leaves the counts of a content None alone
sceneContent_kept(scn, text) ==
    [scn EXCEPT !.sceneContent = Some(text)]

\* Scene.sceneContent (setter)
sceneContent(scn, text) ==
    [scn EXCEPT !.sceneContent = Some(text),
                !.wordCount = wordCount(text),
                !.letterCount = letterCount(text)]

\* "if x is not None: scene.sceneContent = x", on a scene holding old
SetIfNotNone(scn, content) ==
    IF content = None THEN scn ELSE sceneContent(scn, Val(content))

\* Novel.__init__ / Yw7File.__init__
Novel ==
    [title |-> None, desc |-> None, authorName |-> None, authorBio |-> None,
     chapters |-> EmptyDict, scenes |-> EmptyDict, srtChapters |-> << >>,
     locations |-> EmptyDict, srtLocations |-> << >>,
     items |-> EmptyDict, srtItems |-> << >>,
     characters |-> EmptyDict, srtCharacters |-> << >>,
     projectNotes |-> EmptyDict, srtPrjNotes |-> << >>,
     scenesSplit |-> FALSE]

----------------------------------------------------------------------------
(* The XML element tree *)

Absent == << >>

El(text) == << text >>

\* find(tag) is not None
Found(leaf) == leaf # << >>

\* find(tag).text
Text(leaf) == leaf[1]

\* "if x.find(tag) is not None: field = x.find(tag).text", on a field holding old
ReadLeaf(leaf, old) == IF Found(leaf) THEN Text(leaf) ELSE old

XmlProject == [Title |-> Absent, Desc |-> Absent, AuthorName |-> Absent, Bio |-> Absent]

XmlWorldElement(id) ==
    [ID |-> id, Title |-> Absent, ImageFile |-> Absent, Desc |-> Absent,
     AKA |-> Absent, Tags |-> Absent]

XmlCharacter(id) ==
    [ID |-> id, Title |-> Absent, ImageFile |-> Absent, Desc |-> Absent,
     AKA |-> Absent, Tags |-> Absent, Notes |-> Absent, Bio |-> Absent,
     Goals |-> Absent, FullName |-> Absent, Major |-> FALSE]

XmlPrjNote(id) == [ID |-> id, Title |-> Absent, Desc |-> Absent]

XmlChapterFields ==
    [Field_SuppressChapterTitle |-> Absent, Field_IsTrash |-> Absent,
     Field_SuppressChapterBreak |-> Absent]

\* ET.Element('CHAPTER') with its ID child
XmlChapter(id) ==
    [ID |-> id, Title |-> Absent, Desc |-> Absent, SectionStart |-> FALSE,
     Unused |-> FALSE, Type |-> Absent, ChapterType |-> Absent,
     Fields |-> None, Scenes |-> None]

XmlSceneFields == [Field_SceneType |-> Absent]

\* ET.Element('SCENE') with its ID child
XmlScene(id) ==
    [ID |-> id, Title |-> Absent, Desc |-> Absent, SceneContent |-> Absent,
     Unused |-> FALSE, Fields |-> None,
     ExportCondSpecific |-> FALSE, ExportWhenRTF |-> FALSE,
     Status |-> Absent, Tags |-> Absent, AppendToPrev |-> FALSE,
     SpecificDateTime |-> Absent, SpecificDateMode |-> FALSE,
     Day |-> Absent, Hour |-> Absent, Minute |-> Absent,
     Goal |-> Absent, Conflict |-> Absent, Outcome |-> Absent,
     Characters |-> None, Locations |-> None, Items |-> None]

\* the tree built when there is none; SCENES is keyed by ID, its document
\* order is read by nothing
XmlTree ==
    [PROJECT |-> XmlProject, LOCATIONS |-> << >>, ITEMS |-> << >>,
     CHARACTERS |-> << >>, PROJECTNOTES |-> Some(<< >>), SCENES |-> EmptyDict,
     CHAPTERS |-> << >>]

\* the last element of a section carrying the id
ById(section, id) ==
    section[CHOOSE i \in 1..Len(section) :
                section[i].ID = id /\ \A j \in (i + 1)..Len(section) : section[j].ID # id]

SectionIds(section) == [i \in 1..Len(section) |-> section[i].ID]

----------------------------------------------------------------------------
(* pywriter_globals: tag lists *)

\* the loop of string_to_list: strip each part, drop empty and repeated ones
RECURSIVE string_to_list_loop(_, _)
string_to_list_loop(tempList, elements) ==
    IF tempList = << >> THEN elements
    ELSE LET element == strip(tempList[1], Whitespace)
         IN  string_to_list_loop(Tail(tempList),
                 IF element # << >> /\ ~InList(element, elements)
                 THEN Append(elements, element) ELSE elements)

string_to_list(text) == string_to_list_loop(split(text, ";"), << >>)

list_to_string(elements) == join(elements, ";")

_strip_spaces(lines) == [i \in 1..Len(lines) |-> strip(lines[i], Whitespace)]

\* "if x.find('Tags') is not None: if x.find('Tags').text is not None: ..."
ReadTags(leaf) ==
    IF Found(leaf) /\ Text(leaf) # None
    THEN Some(_strip_spaces(string_to_list(Val(Text(leaf)))))
    ELSE None

----------------------------------------------------------------------------
(* Yw7File.read *)

read_project(n, prj) ==
    [n EXCEPT !.title = ReadLeaf(prj.Title, n.title),
              !.authorName = ReadLeaf(prj.AuthorName, n.authorName),
              !.authorBio = ReadLeaf(prj.Bio, n.authorBio),
              !.desc = ReadLeaf(prj.Desc, n.desc)]

read_location(loc) ==
    [title |-> ReadLeaf(loc.Title, None),
     image |-> ReadLeaf(loc.ImageFile, None),
     desc |-> ReadLeaf(loc.Desc, None),
     aka |-> ReadLeaf(loc.AKA, None),
     tags |-> ReadTags(loc.Tags)]

\* the entries of a dict after a section was read into it: the dict is not
\* emptied first, the order list is
ReadSection(dict, section, readOne(_)) ==
    [id \in (DOMAIN dict) \cup Range(SectionIds(section)) |->
        IF id \in Range(SectionIds(section)) THEN readOne(ById(section, id)) ELSE dict[id]]

read_locations(n, root) ==
    [n EXCEPT !.srtLocations = SectionIds(root.LOCATIONS),
              !.locations = ReadSection(n.locations, root.LOCATIONS, read_location)]

read_items(n, root) ==
    [n EXCEPT !.srtItems = SectionIds(root.ITEMS),
              !.items = ReadSection(n.items, root.ITEMS, read_location)]

read_character(crt) ==
    [title |-> ReadLeaf(crt.Title, None),
     image |-> ReadLeaf(crt.ImageFile, None),
     desc |-> ReadLeaf(crt.Desc, None),
     aka |-> ReadLeaf(crt.AKA, None),
     tags |-> ReadTags(crt.Tags),
     notes |-> ReadLeaf(crt.Notes, None),
     bio |-> ReadLeaf(crt.Bio, None),
     goals |-> ReadLeaf(crt.Goals, None),
     fullName |-> ReadLeaf(crt.FullName, None),
     isMajor |-> Some(crt.Major)]

read_characters(n, root) ==
    [n EXCEPT !.srtCharacters = SectionIds(root.CHARACTERS),
              !.characters = ReadSection(n.characters, root.CHARACTERS, read_character)]

read_projectnote(pnt) ==
    [title |-> ReadLeaf(pnt.Title, None), desc |-> ReadLeaf(pnt.Desc, None)]

\* root.find('PROJECTNOTES') may be None: the loop raises and the except passes
read_projectnotes(n, root) ==
    IF root.PROJECTNOTES = None THEN [n EXCEPT !.srtPrjNotes = << >>]
    ELSE [n EXCEPT !.srtPrjNotes = SectionIds(Val(root.PROJECTNOTES)),
                   !.projectNotes =
                       ReadSection(n.projectNotes, Val(root.PROJECTNOTES), read_projectnote)]

\* int(text) of a one-digit element text
Digits == {"0", "1", "2", "3", "4", "5", "6", "7", "8", "9"}

IsInt(text) == text # None /\ Len(Val(text)) = 1 /\ Val(text)[1] \in Digits

IntOf(text) == IF Val(text)[1] = "0" THEN 0 ELSE int(Val(text)[1])

\* str(i) of a one-digit number
StrOf(i) == IF i = 0 THEN << "0" >> ELSE << str(i) >>

\* the scene type from <Fields><Field_SceneType> and <Unused>
read_scType(scn) ==
    LET fromField ==
            IF scn.Fields # None /\ Found(Val(scn.Fields).Field_SceneType)
            THEN IF Text(Val(scn.Fields).Field_SceneType) = Some(<< "1" >>) THEN 1
                 ELSE IF Text(Val(scn.Fields).Field_SceneType) = Some(<< "2" >>) THEN 2
                 ELSE 0
            ELSE 0
    IN  IF scn.Unused /\ fromField = 0 THEN 3 ELSE fromField

\* the loop over SpecificDateTime.text.split(' '): the last part holding '-'
\* is the date, the last other part holding ':' is the time
RECURSIVE read_dateTime(_, _)
read_dateTime(parts, dt) ==
    IF parts = << >> THEN dt
    ELSE read_dateTime(Tail(parts),
            IF Contains(parts[1], "-") THEN [dt EXCEPT !.date = Some(parts[1])]
            ELSE IF Contains(parts[1], ":") THEN [dt EXCEPT !.time = Some(parts[1])]
            ELSE dt)

\* the ids of a scene's Characters, Locations or Items list that the order
\* list read before holds; the list is created with its first valid id
RECURSIVE ValidIds(_, _)
ValidIds(ids, known) ==
    IF ids = << >> THEN << >>
    ELSE (IF ids[1] \in known THEN << ids[1] >> ELSE << >>) \o ValidIds(Tail(ids), known)

ReadRefs(xmlList, srt) ==
    IF xmlList = None \/ ValidIds(Val(xmlList), Range(srt)) = << >> THEN None
    ELSE Some(ValidIds(Val(xmlList), Range(srt)))

read_scene(n, scn) ==
    LET dt == IF Found(scn.SpecificDateTime)
              THEN read_dateTime(split(Val(Text(scn.SpecificDateTime)), " "),
                                 [date |-> None, time |-> None])
              ELSE [date |-> None, time |-> None]
        unspecific == ~Found(scn.SpecificDateTime)
    IN  SetIfNotNone(
        [title |-> ReadLeaf(scn.Title, None),
         desc |-> ReadLeaf(scn.Desc, None),
         sceneContent |-> None, wordCount |-> 0, letterCount |-> 0,
         scType |-> Some(read_scType(scn)),
         doNotExport |-> Some(scn.ExportCondSpecific /\ ~scn.ExportWhenRTF),
         status |-> IF Found(scn.Status) THEN Some(IntOf(Text(scn.Status))) ELSE None,
         tags |-> ReadTags(scn.Tags),
         appendToPrev |-> Some(scn.AppendToPrev),
         goal |-> ReadLeaf(scn.Goal, None),
         conflict |-> ReadLeaf(scn.Conflict, None),
         outcome |-> ReadLeaf(scn.Outcome, None),
         characters |-> ReadRefs(scn.Characters, n.srtCharacters),
         locations |-> ReadRefs(scn.Locations, n.srtLocations),
         items |-> ReadRefs(scn.Items, n.srtItems),
         date |-> dt.date,
         time |-> dt.time,
         day |-> IF unspecific THEN ReadLeaf(scn.Day, None) ELSE None,
         hour |-> IF unspecific THEN ReadLeaf(scn.Hour, None) ELSE None,
         minute |-> IF unspecific THEN ReadLeaf(scn.Minute, None) ELSE None],
        ReadLeaf(scn.SceneContent, None))

\* the statements of read_scenes that raise: int() of a Status that is no
\* number, .split of the text of an empty SpecificDateTime
read_scene_raises(scn) ==
    \/ Found(scn.Status) /\ ~IsInt(Text(scn.Status))
    \/ Found(scn.SpecificDateTime) /\ Text(scn.SpecificDateTime) = None

\* self.scenes is not emptied before reading
read_scenes(n, root) ==
    [n EXCEPT !.scenes =
        [id \in (DOMAIN n.scenes) \cup (DOMAIN root.SCENES) |->
            IF id \in DOMAIN root.SCENES THEN read_scene(n, root.SCENES[id])
            ELSE n.scenes[id]]]

\* the chapter type from <Unused>, <Type> and <ChapterType>
read_chType(chp) ==
    IF Found(chp.ChapterType)
    THEN IF Text(chp.ChapterType) = Some(<< "2" >>) THEN 2
         ELSE IF Text(chp.ChapterType) = Some(<< "1" >>) THEN 1
         ELSE IF chp.Unused THEN 3
         ELSE 0
    ELSE IF Found(chp.Type)
         THEN IF Text(chp.Type) = Some(<< "1" >>) THEN 1
              ELSE IF chp.Unused THEN 3
              ELSE 0
         ELSE 0

FieldIs1(fields, leaf) == fields # None /\ leaf # Absent /\ Text(leaf) = Some(<< "1" >>)

\* every ScID entry, without the test "if scId in self.scenes"
read_srtScenes_unchecked(xmlScenes, scenes) ==
    IF xmlScenes = None THEN << >> ELSE Val(xmlScenes)

\* the ScID entries of <Scenes> that are keys of self.scenes
read_srtScenes(xmlScenes, scenes) ==
    IF xmlScenes = None THEN << >> ELSE ValidIds(Val(xmlScenes), DOMAIN scenes)

read_chapter(n, chp) ==
    LET title == ReadLeaf(chp.Title, None)
    IN  [title |-> title,
         desc |-> ReadLeaf(chp.Desc, None),
         chLevel |-> Some(IF chp.SectionStart THEN 1 ELSE 0),
         chType |-> Some(read_chType(chp)),
         suppressChapterTitle |->
             Some(\/ title # None /\ startswith(Val(title), << "@" >>)
                  \/ chp.Fields # None
                     /\ FieldIs1(chp.Fields, Val(chp.Fields).Field_SuppressChapterTitle)),
         isTrash |->
             IF chp.Fields = None THEN None
             ELSE Some(FieldIs1(chp.Fields, Val(chp.Fields).Field_IsTrash)),
         suppressChapterBreak |->
             IF chp.Fields = None THEN None
             ELSE Some(FieldIs1(chp.Fields, Val(chp.Fields).Field_SuppressChapterBreak)),
         srtScenes |-> read_srtScenes(chp.Scenes, n.scenes)]

\* self.chapters is not emptied before reading
read_chapters(n, root) ==
    [n EXCEPT !.srtChapters = SectionIds(root.CHAPTERS),
              !.chapters =
                  [id \in (DOMAIN n.chapters) \cup Range(SectionIds(root.CHAPTERS)) |->
                      IF id \in Range(SectionIds(root.CHAPTERS))
                      THEN read_chapter(n, ById(root.CHAPTERS, id))
                      ELSE n.chapters[id]]]

----------------------------------------------------------------------------
(* Yw7File.adjust_scene_types *)

SetTypes(scenes, scIds, t) ==
    [id \in DOMAIN scenes |->
        IF id \in Range(scIds) THEN [scenes[id] EXCEPT !.scType = t] ELSE scenes[id]]

\* the loop over srtChapters, on the scenes dict
RECURSIVE adjust_loop(_, _, _)
adjust_loop(chapters, scenes, chIds) ==
    IF chIds = << >> THEN scenes
    ELSE adjust_loop(chapters,
            IF chapters[chIds[1]].chType # Some(0)
            THEN SetTypes(scenes, chapters[chIds[1]].srtScenes, chapters[chIds[1]].chType)
            ELSE scenes,
            Tail(chIds))

adjust_scene_types(n) ==
    [n EXCEPT !.scenes = adjust_loop(n.chapters, n.scenes, n.srtChapters)]

\* a KeyError in adjust_scene_types: the chapter order names a chapter the
\* dict does not hold, or a chapter that is not Normal lists a scene the dict
\* does not hold
adjust_raises(n) ==
    \/ \E c \in Range(n.srtChapters) : c \notin DOMAIN n.chapters
    \/ \E c \in Range(n.srtChapters) \cap DOMAIN n.chapters :
           /\ n.chapters[c].chType # Some(0)
           /\ \E sc \in Range(n.chapters[c].srtScenes) : sc \notin DOMAIN n.scenes

----------------------------------------------------------------------------
(* Yw7File.read: the whole call *)

read_raises(root) == \E id \in DOMAIN root.SCENES : read_scene_raises(root.SCENES[id])

read(n, root) ==
    adjust_scene_types(
        read_chapters(
            read_scenes(
                read_projectnotes(
                    read_characters(
                        read_items(
                            read_locations(
                                read_project(n, root.PROJECT),
                            root),
                        root),
                    root),
                root),
            root),
        root))

----------------------------------------------------------------------------
(* Yw7File._build_element_tree *)

\* "if value is not None: try: x.find(tag).text = value
\*                         except AttributeError: ET.SubElement(x, tag).text = value"
WriteLeaf(leaf, value) == IF value # None THEN El(value) ELSE leaf

scTypeEncoding ==
    << [yUnused |-> FALSE, ySceneType |-> None],
       [yUnused |-> TRUE, ySceneType |-> Some(<< "1" >>)],
       [yUnused |-> TRUE, ySceneType |-> Some(<< "2" >>)],
       [yUnused |-> TRUE, ySceneType |-> Some(<< "0" >>)] >>

\* "if prjScn.scType is None: prjScn.scType = 0"; the tuple is indexed from 0
scTypeOf(prjScn) == IF prjScn.scType = None THEN 0 ELSE Val(prjScn.scType)

\* <Fields><Field_SceneType> of a scene
build_scene_fields(fields, ySceneType) ==
    IF fields # None
    THEN IF ySceneType = None
         THEN Some([Val(fields) EXCEPT !.Field_SceneType = Absent])
         ELSE Some([Val(fields) EXCEPT !.Field_SceneType = El(ySceneType)])
    ELSE IF ySceneType # None
         THEN Some([XmlSceneFields EXCEPT !.Field_SceneType = El(ySceneType)])
         ELSE None

\* the date/time part of build_scene_subtree
build_scene_dateTime(xmlScn, prjScn) ==
    IF prjScn.date # None /\ prjScn.time # None
    THEN LET dateTime == Some(Val(prjScn.date) \o << " " >> \o Val(prjScn.time))
         IN  IF Found(xmlScn.SpecificDateTime)
             THEN [xmlScn EXCEPT !.SpecificDateTime = El(dateTime)]
             ELSE [xmlScn EXCEPT !.SpecificDateTime = El(dateTime),
                                 !.SpecificDateMode = TRUE,
                                 !.Day = Absent, !.Hour = Absent, !.Minute = Absent]
    ELSE IF prjScn.day # None \/ prjScn.hour # None \/ prjScn.minute # None
         THEN [xmlScn EXCEPT !.SpecificDateTime = Absent,
                             !.SpecificDateMode = FALSE,
                             !.Day = WriteLeaf(xmlScn.Day, prjScn.day),
                             !.Hour = WriteLeaf(xmlScn.Hour, prjScn.hour),
                             !.Minute = WriteLeaf(xmlScn.Minute, prjScn.minute)]
         ELSE xmlScn

\* "if prjScn.characters is not None: (empty or create the list) append each id"
WriteRefs(xmlList, refs) == IF refs # None THEN Some(Val(refs)) ELSE xmlList

build_scene_subtree(xmlScn, prjScn) ==
    LET enc == scTypeEncoding[scTypeOf(prjScn) + 1]
        x == build_scene_dateTime(xmlScn, prjScn)
    IN  [x EXCEPT
            !.Title = WriteLeaf(xmlScn.Title, prjScn.title),
            !.Desc = WriteLeaf(xmlScn.Desc, prjScn.desc),
            !.SceneContent =
                IF Found(xmlScn.SceneContent) THEN xmlScn.SceneContent
                ELSE El(prjScn.sceneContent),
            !.Unused = enc.yUnused,
            !.Fields = build_scene_fields(xmlScn.Fields, enc.ySceneType),
            !.Status =
                IF prjScn.status # None THEN El(Some(StrOf(Val(prjScn.status))))
                ELSE xmlScn.Status,
            !.Tags =
                IF prjScn.tags # None THEN El(Some(list_to_string(Val(prjScn.tags))))
                ELSE xmlScn.Tags,
            !.AppendToPrev = TruthyBool(prjScn.appendToPrev),
            !.Goal = WriteLeaf(xmlScn.Goal, prjScn.goal),
            !.Conflict = WriteLeaf(xmlScn.Conflict, prjScn.conflict),
            !.Outcome = WriteLeaf(xmlScn.Outcome, prjScn.outcome),
            !.Characters = WriteRefs(xmlScn.Characters, prjScn.characters),
            !.Locations = WriteRefs(xmlScn.Locations, prjScn.locations),
            !.Items = WriteRefs(xmlScn.Items, prjScn.items)]

\* the rows of Notes and Todo with their ChapterType codes exchanged
chTypeEncoding_exchanged ==
    << [yUnused |-> FALSE, yType |-> << "0" >>, yChapterType |-> << "0" >>],
       [yUnused |-> TRUE, yType |-> << "1" >>, yChapterType |-> << "2" >>],
       [yUnused |-> TRUE, yType |-> << "1" >>, yChapterType |-> << "1" >>],
       [yUnused |-> TRUE, yType |-> << "1" >>, yChapterType |-> << "0" >>] >>

chTypeEncoding ==
    << [yUnused |-> FALSE, yType |-> << "0" >>, yChapterType |-> << "0" >>],
       [yUnused |-> TRUE, yType |-> << "1" >>, yChapterType |-> << "1" >>],
       [yUnused |-> TRUE, yType |-> << "1" >>, yChapterType |-> << "2" >>],
       [yUnused |-> TRUE, yType |-> << "1" >>, yChapterType |-> << "0" >>] >>

\* "if prjChp.chType is None: prjChp.chType = 0"
chTypeOf(prjChp) == IF prjChp.chType = None THEN 0 ELSE Val(prjChp.chType)

\* a flag field kept as '1' / '0': Field_SuppressChapterTitle, Field_SuppressChapterBreak
FlagField10(fields, name, flag) ==
    IF TruthyBool(flag)
    THEN Some([(IF fields = None THEN XmlChapterFields ELSE Val(fields))
                   EXCEPT ![name] = El(Some(<< "1" >>))])
    ELSE IF fields # None /\ Found(Val(fields)[name])
         THEN Some([Val(fields) EXCEPT ![name] = El(Some(<< "0" >>))])
         ELSE fields

\* a flag field kept as '1' / removed: Field_IsTrash
FlagField1(fields, name, flag) ==
    IF TruthyBool(flag)
    THEN Some([(IF fields = None THEN XmlChapterFields ELSE Val(fields))
                   EXCEPT ![name] = El(Some(<< "1" >>))])
    ELSE IF fields # None
         THEN Some([Val(fields) EXCEPT ![name] = Absent])
         ELSE fields

build_chapter_fields(fields, prjChp) ==
    FlagField1(
        FlagField10(
            FlagField10(fields, "Field_SuppressChapterTitle", prjChp.suppressChapterTitle),
            "Field_SuppressChapterBreak", prjChp.suppressChapterBreak),
        "Field_IsTrash", prjChp.isTrash)

build_chapter_subtree(xmlChp, prjChp) ==
    LET enc == chTypeEncoding[chTypeOf(prjChp) + 1]
    IN  [xmlChp EXCEPT
            !.Title = El(prjChp.title),
            !.Desc = WriteLeaf(xmlChp.Desc, prjChp.desc),
            !.SectionStart =
                IF xmlChp.SectionStart THEN prjChp.chLevel # Some(0)
                ELSE prjChp.chLevel = Some(1),
            !.ChapterType = El(Some(enc.yChapterType)),
            !.Type = El(Some(enc.yType)),
            !.Unused = enc.yUnused,
            !.Fields = build_chapter_fields(xmlChp.Fields, prjChp),
            !.Scenes = IF prjChp.srtScenes # << >> THEN Some(prjChp.srtScenes) ELSE None]

\* "if value is not None: ET.SubElement(x, tag).text = value" on a new element
NewLeaf(value) == IF value # None THEN El(value) ELSE Absent

NewTags(tags) == IF tags # None THEN El(Some(list_to_string(Val(tags)))) ELSE Absent

\* build_location_subtree and build_item_subtree, on a new element
build_location_subtree(id, prjLoc) ==
    [ID |-> id,
     Title |-> NewLeaf(prjLoc.title),
     ImageFile |-> NewLeaf(prjLoc.image),
     Desc |-> NewLeaf(prjLoc.desc),
     AKA |-> NewLeaf(prjLoc.aka),
     Tags |-> NewTags(prjLoc.tags)]

build_character_subtree(id, prjCrt) ==
    [ID |-> id,
     Title |-> NewLeaf(prjCrt.title),
     Desc |-> NewLeaf(prjCrt.desc),
     ImageFile |-> NewLeaf(prjCrt.image),
     Notes |-> NewLeaf(prjCrt.notes),
     AKA |-> NewLeaf(prjCrt.aka),
     Tags |-> NewTags(prjCrt.tags),
     Bio |-> NewLeaf(prjCrt.bio),
     Goals |-> NewLeaf(prjCrt.goals),
     FullName |-> NewLeaf(prjCrt.fullName),
     Major |-> TruthyBool(prjCrt.isMajor)]

build_prjNote_subtree(id, prjPnt) ==
    [ID |-> id, Title |-> NewLeaf(prjPnt.title), Desc |-> NewLeaf(prjPnt.desc)]

build_project_subtree(xmlPrj, n) ==
    [xmlPrj EXCEPT
        !.Title = WriteLeaf(xmlPrj.Title, n.title),
        !.Desc = WriteLeaf(xmlPrj.Desc, n.desc),
        !.AuthorName = WriteLeaf(xmlPrj.AuthorName, n.authorName),
        !.Bio = WriteLeaf(xmlPrj.Bio, n.authorBio)]

\* the SCENE element written for a scene: the subtree built on the element
\* found in the tree (or on a new one), then the scene content set by the
\* closing loop over root.iter('SCENE')
build_scene(root, n, scId) ==
    LET xmlScn == IF scId \in DOMAIN root.SCENES THEN root.SCENES[scId] ELSE XmlScene(scId)
        built == build_scene_subtree(xmlScn, n.scenes[scId])
    IN  IF n.scenes[scId].sceneContent # None
        THEN [built EXCEPT !.SceneContent = El(n.scenes[scId].sceneContent)]
        ELSE built

build_chapter(root, n, chId) ==
    build_chapter_subtree(
        IF chId \in Range(SectionIds(root.CHAPTERS)) THEN ById(root.CHAPTERS, chId)
        ELSE XmlChapter(chId),
        n.chapters[chId])

\* a KeyError while the sections are rebuilt from the order lists
build_raises(n) ==
    \/ \E id \in Range(n.srtLocations) : id \notin DOMAIN n.locations
    \/ \E id \in Range(n.srtItems) : id \notin DOMAIN n.items
    \/ \E id \in Range(n.srtCharacters) : id \notin DOMAIN n.characters
    \/ \E id \in Range(n.srtPrjNotes) : id \notin DOMAIN n.projectNotes
    \/ \E id \in Range(n.srtChapters) : id \notin DOMAIN n.chapters

_build_element_tree(n, t) ==
    LET root == IF t = None THEN XmlTree ELSE Val(t)
    IN  [PROJECT |-> build_project_subtree(root.PROJECT, n),
         LOCATIONS |->
             [i \in 1..Len(n.srtLocations) |->
                 build_location_subtree(n.srtLocations[i], n.locations[n.srtLocations[i]])],
         ITEMS |->
             [i \in 1..Len(n.srtItems) |->
                 build_location_subtree(n.srtItems[i], n.items[n.srtItems[i]])],
         CHARACTERS |->
             [i \in 1..Len(n.srtCharacters) |->
                 build_character_subtree(n.srtCharacters[i],
                                         n.characters[n.srtCharacters[i]])],
         PROJECTNOTES |->
             IF n.srtPrjNotes = << >> THEN None
             ELSE Some([i \in 1..Len(n.srtPrjNotes) |->
                           build_prjNote_subtree(n.srtPrjNotes[i],
                                                 n.projectNotes[n.srtPrjNotes[i]])]),
         SCENES |-> [scId \in DOMAIN n.scenes |-> build_scene(root, n, scId)],
         CHAPTERS |->
             [i \in 1..Len(n.srtChapters) |-> build_chapter(root, n, n.srtChapters[i])]]

\* the model after _build_element_tree: a type that was None is 0 now, for
\* every scene and for the chapters of the chapter order
after_build(n) ==
    [n EXCEPT
        !.scenes = [id \in DOMAIN n.scenes |->
                       [n.scenes[id] EXCEPT !.scType = Some(scTypeOf(n.scenes[id]))]],
        !.chapters = [id \in DOMAIN n.chapters |->
                         IF id \in Range(n.srtChapters)
                         THEN [n.chapters[id] EXCEPT !.chType = Some(chTypeOf(n.chapters[id]))]
                         ELSE n.chapters[id]]]

----------------------------------------------------------------------------
(* ElementTree.write, _postprocess_xml_file, and ElementTree.parse of the   *)
(* result: what a text of the tree is when the file is read again           *)

\* the text of an element named in _CDATA_TAGS: ElementTree writes an empty
\* text as <Tag />; the postprocessing wraps the text in CDATA, drops ' \n'
\* right after the opening and '\n' right before the closing, and unescapes
\* the entities ElementTree wrote
DropLeading(s) ==
    IF startswith(s, << " ", "\n" >>) THEN SubSeq(s, 3, Len(s)) ELSE s

DropTrailing(s) ==
    IF s # << >> /\ s[Len(s)] = "\n" THEN SubSeq(s, 1, Len(s) - 1) ELSE s

NoneIfEmpty(s) == IF s = << >> THEN None ELSE Some(s)

FromCData(text) ==
    IF text = None THEN None ELSE NoneIfEmpty(DropTrailing(DropLeading(Val(text))))

\* the text of any other element: unescaped, and not wrapped
FromPlain(text) == IF text = None \/ Val(text) = << >> THEN None ELSE text

\* unescaped '&' or '<' outside CDATA: the file does not parse any more
Unparsable(leaf) ==
    Found(leaf) /\ Text(leaf) # None
    /\ (Contains(Val(Text(leaf)), "&") \/ Contains(Val(Text(leaf)), "<"))

CD(leaf) == IF Found(leaf) THEN El(FromCData(Text(leaf))) ELSE Absent

PL(leaf) == IF Found(leaf) THEN El(FromPlain(Text(leaf))) ELSE Absent

FromFileWorldElement(x) ==
    [x EXCEPT !.Title = CD(x.Title), !.ImageFile = CD(x.ImageFile), !.Desc = CD(x.Desc),
              !.AKA = CD(x.AKA), !.Tags = CD(x.Tags)]

FromFileCharacter(x) ==
    [x EXCEPT !.Title = CD(x.Title), !.ImageFile = CD(x.ImageFile), !.Desc = CD(x.Desc),
              !.AKA = CD(x.AKA), !.Tags = CD(x.Tags), !.Notes = CD(x.Notes),
              !.Bio = CD(x.Bio), !.Goals = CD(x.Goals), !.FullName = CD(x.FullName)]

FromFilePrjNote(x) == [x EXCEPT !.Title = CD(x.Title), !.Desc = CD(x.Desc)]

FromFileScene(x) ==
    [x EXCEPT !.Title = CD(x.Title), !.Desc = CD(x.Desc),
              !.SceneContent = CD(x.SceneContent), !.Tags = CD(x.Tags),
              !.Goal = CD(x.Goal), !.Conflict = CD(x.Conflict), !.Outcome = CD(x.Outcome),
              !.Status = PL(x.Status), !.SpecificDateTime = PL(x.SpecificDateTime),
              !.Day = PL(x.Day), !.Hour = PL(x.Hour), !.Minute = PL(x.Minute)]

FromFileChapter(x) == [x EXCEPT !.Title = CD(x.Title), !.Desc = CD(x.Desc)]

FromFile(root) ==
    [PROJECT |-> [root.PROJECT EXCEPT !.Title = CD(root.PROJECT.Title),
                                     !.Desc = CD(root.PROJECT.Desc),
                                     !.AuthorName = CD(root.PROJECT.AuthorName),
                                     !.Bio = CD(root.PROJECT.Bio)],
     LOCATIONS |-> [i \in 1..Len(root.LOCATIONS) |-> FromFileWorldElement(root.LOCATIONS[i])],
     ITEMS |-> [i \in 1..Len(root.ITEMS) |-> FromFileWorldElement(root.ITEMS[i])],
     CHARACTERS |-> [i \in 1..Len(root.CHARACTERS) |-> FromFileCharacter(root.CHARACTERS[i])],
     PROJECTNOTES |->
         IF root.PROJECTNOTES = None THEN None
         ELSE Some([i \in 1..Len(Val(root.PROJECTNOTES)) |->
                       FromFilePrjNote(Val(root.PROJECTNOTES)[i])]),
     SCENES |-> [id \in DOMAIN root.SCENES |-> FromFileScene(root.SCENES[id])],
     CHAPTERS |-> [i \in 1..Len(root.CHAPTERS) |-> FromFileChapter(root.CHAPTERS[i])]]

WellFormed(root) ==
    \A id \in DOMAIN root.SCENES :
        ~ \/ Unparsable(root.SCENES[id].SpecificDateTime)
          \/ Unparsable(root.SCENES[id].Day)
          \/ Unparsable(root.SCENES[id].Hour)
          \/ Unparsable(root.SCENES[id].Minute)

\* the project file written from a tree
Written(root) == [root |-> FromFile(root), wellFormed |-> WellFormed(root)]


----------------------------------------------------------------------------
(* Splitter.split_scenes *)

PART_SEPARATOR == << "#" >>

CHAPTER_SEPARATOR == << "#", "#" >>

SCENE_SEPARATOR == << "#", "#", "#" >>

DESC_SEPARATOR == "|"

_CLIP_TITLE == 20

WARNING == << "(", "!", ")" >>

\* _('New Chapter'), _('New Part'): the untranslated messages
NewChapterTitle == << "N", "e", "w", " ", "C", "h", "a", "p", "t", "e", "r" >>

NewPartTitle == << "N", "e", "w", " ", "P", "a", "r", "t" >>

\* the text of the f-string f'_("New Scene") Split: {splitCount}' without
\* its number
NewSceneTitle == << "_", "(", "\"", "N", "e", "w", " ", "S", "c", "e", "n", "e", "\"", ")" >>

SplitSuffix == << " ", "S", "p", "l", "i", "t", ":", " " >>

create_chapter(n, chapterId, title, desc, level) ==
    [n EXCEPT !.chapters =
        Put(n.chapters, chapterId,
            [Chapter EXCEPT !.title = Some(title), !.desc = Some(desc),
                            !.chLevel = Some(level), !.chType = Some(0)])]

\* the warning put in front of every non-empty field, marked or not
Warn_again(field) == IF Truthy(field) THEN Some(WARNING \o Val(field)) ELSE field

\* "if parent.x and not parent.x.startswith(WARNING): parent.x = WARNING + parent.x"
Warn(field) ==
    IF Truthy(field) /\ ~startswith(Val(field), WARNING)
    THEN Some(WARNING \o Val(field)) ELSE field

\* the parent scene after create_scene marked it and reset its status, which
\* is a number
marked_parent(parent) ==
    [parent EXCEPT !.desc = Warn(parent.desc), !.goal = Warn(parent.goal),
                   !.conflict = Warn(parent.conflict), !.outcome = Warn(parent.outcome),
                   !.status = IF Val(parent.status) > 2 THEN Some(2) ELSE parent.status]

\* the title create_scene gives the new scene
new_title(parentTitle, splitCount, title) ==
    IF title # << >> THEN title
    ELSE IF Truthy(parentTitle)
         THEN (IF Len(Val(parentTitle)) > _CLIP_TITLE
               THEN SubSeq(Val(parentTitle), 1, _CLIP_TITLE) \o << ".", ".", "." >>
               ELSE Val(parentTitle)) \o SplitSuffix \o StrOf(splitCount)
         ELSE NewSceneTitle \o SplitSuffix \o StrOf(splitCount)

\* the scene create_scene makes, from the marked parent
new_scene(parent, newTitle, desc) ==
    [Scene EXCEPT !.title = Some(newTitle),
                  !.desc = IF desc # << >> THEN Some(desc) ELSE None,
                  !.status = parent.status,
                  !.scType = parent.scType,
                  !.date = parent.date, !.time = parent.time,
                  !.day = parent.day, !.hour = parent.hour,
                  !.minute = parent.minute]

\* create_scene on a parent whose status is a number
create_scene(n, sceneId, parentId, splitCount, title, desc) ==
    [n EXCEPT !.scenes =
        Put([n.scenes EXCEPT ![parentId] = marked_parent(n.scenes[parentId])],
            sceneId,
            new_scene(marked_parent(n.scenes[parentId]),
                      new_title(n.scenes[parentId].title, splitCount, title),
                      desc))]

\* the largest int(id) of a collection of ids, 0 if there is none
IdMax(ids) ==
    IF ids = {} THEN 0
    ELSE CHOOSE m \in {int(i) : i \in ids} : \A i \in ids : int(i) <= m

\* the lines joined with ' ' instead of '\n'
SetContent_spaces(n, sceneId, newLines) ==
    [n EXCEPT !.scenes[sceneId] = sceneContent(n.scenes[sceneId], join(newLines, " "))]

SetContent(n, sceneId, newLines) ==
    [n EXCEPT !.scenes[sceneId] = sceneContent(n.scenes[sceneId], join(newLines, "\n"))]

\* "if inScene:" of the chapter and part branches
CloseScene(st) ==
    IF st.inScene
    THEN [st EXCEPT !.n = SetContent(st.n, st.sceneId, st.newLines),
                    !.newLines = << >>, !.sceneSplitCount = 0, !.inScene = FALSE]
    ELSE st

\* the chapter and part branches after "if inScene:"; level 0 is a chapter
OpenChapter(st, chapterId, title, desc, level) ==
    [st EXCEPT !.n = create_chapter(
                         [st.n EXCEPT !.chapters[st.chapterId].srtScenes = st.srtScenes],
                         chapterId, title, desc, level),
               !.srtScenes = << >>,
               !.chIdMax = st.chIdMax + 1,
               !.chapterId = chapterId,
               !.srtChapters = Append(st.srtChapters, chapterId),
               !.scenesSplit = IF level = 0 THEN TRUE ELSE st.scenesSplit]

NewChapter(st, title, desc, level) ==
    IF st.chIdMax + 1 > MaxId THEN [st EXCEPT !.fail = "over"]
    ELSE OpenChapter(CloseScene(st), str(st.chIdMax + 1), title, desc, level)

\* the scene branch and the "elif not inScene" branch, after the content and
\* newLines were set; "parent.status > 2" raises TypeError on a status None
NewScene(st, scId, title, desc) ==
    IF st.scIdMax + 1 > MaxId THEN [st EXCEPT !.fail = "over"]
    ELSE IF st.n.scenes[scId].status = None THEN [st EXCEPT !.fail = "raised"]
    ELSE [st EXCEPT !.n = create_scene(st.n, str(st.scIdMax + 1), scId,
                                       st.sceneSplitCount + 1, title, desc),
                    !.sceneSplitCount = st.sceneSplitCount + 1,
                    !.scIdMax = st.scIdMax + 1,
                    !.sceneId = str(st.scIdMax + 1),
                    !.srtScenes = Append(st.srtScenes, str(st.scIdMax + 1)),
                    !.scenesSplit = TRUE,
                    !.inScene = TRUE]

\* heading = line.strip('# ').split(DESC_SEPARATOR)
Heading(line) == split(strip(line, {"#", " "}), DESC_SEPARATOR)

\* the title taken for the description: heading[0]
HeadingDesc_title(heading) == heading[1]

\* desc = heading[1], '' if there is none
HeadingDesc(heading) == IF Len(heading) > 1 THEN heading[2] ELSE << >>

\* the branch a line takes: "scene", "chapter", "part", "append" (a line
\* after a chapter or part heading) or "line"
Branch(line, inScene) ==
    IF startswith(line, SCENE_SEPARATOR) THEN "scene"
    ELSE IF startswith(line, CHAPTER_SEPARATOR) THEN "chapter"
    ELSE IF startswith(line, PART_SEPARATOR) THEN "part"
    ELSE IF ~inScene THEN "append"
    ELSE "line"

\* the body of "for line in lines"
split_line(st, scId, line) ==
    CASE Branch(line, st.inScene) = "scene" ->
             NewScene([st EXCEPT !.n = SetContent(st.n, st.sceneId, st.newLines),
                                 !.newLines = << >>],
                      scId, Heading(line)[1], HeadingDesc(Heading(line)))
      [] Branch(line, st.inScene) = "chapter" ->
             NewChapter(st,
                        IF Heading(line)[1] = << >> THEN NewChapterTitle ELSE Heading(line)[1],
                        HeadingDesc(Heading(line)), 0)
      [] Branch(line, st.inScene) = "part" ->
             NewChapter(st,
                        IF Heading(line)[1] = << >> THEN NewPartTitle ELSE Heading(line)[1],
                        HeadingDesc(Heading(line)), 1)
      [] Branch(line, st.inScene) = "append" ->
             NewScene([st EXCEPT !.newLines = Append(st.newLines, line)], scId, << >>, << >>)
      [] OTHER -> [st EXCEPT !.newLines = Append(st.newLines, line)]

RECURSIVE split_lines(_, _, _)
split_lines(st, scId, lines) ==
    IF lines = << >> \/ st.fail # "" THEN st
    ELSE split_lines(split_line(st, scId, lines[1]), scId, Tail(lines))

\* "novel.scenes[sceneId].sceneContent = '\n'.join(newLines)" after the lines
end_scene(st) ==
    IF st.fail # "" THEN st ELSE [st EXCEPT !.n = SetContent(st.n, st.sceneId, st.newLines)]

\* the body of "for scId in novel.chapters[chId].srtScenes"
split_scene(st, scId) ==
    IF scId \notin DOMAIN st.n.scenes
    THEN [st EXCEPT !.srtScenes = Append(st.srtScenes, scId), !.fail = "raised"]
    ELSE IF ~Truthy(st.n.scenes[scId].sceneContent)
    THEN [st EXCEPT !.srtScenes = Append(st.srtScenes, scId)]
    ELSE end_scene(
             split_lines([st EXCEPT !.srtScenes = Append(st.srtScenes, scId),
                                    !.sceneId = scId, !.newLines = << >>,
                                    !.inScene = TRUE, !.sceneSplitCount = 0],
                         scId, split(Val(st.n.scenes[scId].sceneContent), "\n")))

RECURSIVE split_chapter_scenes(_, _)
split_chapter_scenes(st, scIds) ==
    IF scIds = << >> \/ st.fail # "" THEN st
    ELSE split_chapter_scenes(split_scene(st, scIds[1]), Tail(scIds))

\* "novel.chapters[chapterId].srtScenes = srtScenes" after the scenes
end_chapter(st) ==
    IF st.fail # "" THEN st
    ELSE [st EXCEPT !.n.chapters[st.chapterId].srtScenes = st.srtScenes]

\* the body of "for chId in novel.srtChapters"
split_chapter(st, chId) ==
    IF chId \notin DOMAIN st.n.chapters THEN [st EXCEPT !.fail = "raised"]
    ELSE end_chapter(
             split_chapter_scenes(
                 [st EXCEPT !.srtChapters = Append(st.srtChapters, chId),
                            !.chapterId = chId, !.srtScenes = << >>],
                 st.n.chapters[chId].srtScenes))

RECURSIVE split_chapters(_, _)
split_chapters(st, chIds) ==
    IF chIds = << >> \/ st.fail # "" THEN st
    ELSE split_chapters(split_chapter(st, chIds[1]), Tail(chIds))

\* "novel.srtChapters = srtChapters" after the chapters
end_split(st) ==
    IF st.fail # "" THEN st ELSE [st EXCEPT !.n.srtChapters = st.srtChapters]

\* split_scenes(novel): the novel it leaves, what it returns (scenesSplit),
\* and fail: "raised" for an exception, "over" when an id would pass MaxId
split_scenes(n) ==
    end_split(
        split_chapters(
            [n |-> n,
             chIdMax |-> IdMax(Range(n.srtChapters)),
             scIdMax |-> IdMax(DOMAIN n.scenes),
             scenesSplit |-> FALSE, srtChapters |-> << >>,
             chapterId |-> "", srtScenes |-> << >>, sceneId |-> "",
             newLines |-> << >>, inScene |-> TRUE, sceneSplitCount |-> 0,
             fail |-> ""],
            n.srtChapters))

----------------------------------------------------------------------------
(* Yw7File.merge *)

\* merge_lists(srcLst, tgtLst): the target list after the loop, from position j
RECURSIVE merge_lists_loop(_, _, _)
merge_lists_loop(srcLst, tgtLst, j) ==
    IF srcLst = << >> THEN tgtLst
    ELSE IF ~InList(srcLst[1], tgtLst)
         THEN merge_lists_loop(Tail(srcLst), insert(tgtLst, j, srcLst[1]), j + 1)
         ELSE merge_lists_loop(Tail(srcLst), tgtLst, index(tgtLst, srcLst[1]))

merge_lists(srcLst, tgtLst) == merge_lists_loop(srcLst, tgtLst, 0)

\* the title merged like any other field: "if source.title is not None"
merge_title_not_none(srcTitle, tgtTitle) == IF srcTitle # None THEN srcTitle ELSE tgtTitle

\* "if source.title: title = source.title  else: (keep) the target's"
merge_title(srcTitle, tgtTitle) == IF Truthy(srcTitle) THEN srcTitle ELSE tgtTitle

\* "if source.x is not None: x = source.x  else: (keep) the target's"
merge_field(srcValue, tgtValue) == IF srcValue # None THEN srcValue ELSE tgtValue

\* one location: the else branch of the image test assigns desc, so the image
\* of the new WorldElement stays None when the source has none
merge_location(src, temp) ==
    [title |-> merge_title(src.title, temp.title),
     image |-> IF src.image # None THEN src.image ELSE None,
     desc |-> merge_field(src.desc, temp.desc),
     aka |-> merge_field(src.aka, temp.aka),
     tags |-> merge_field(src.tags, temp.tags)]

merge_item(src, temp) ==
    [title |-> merge_title(src.title, temp.title),
     image |-> merge_field(src.image, temp.image),
     desc |-> merge_field(src.desc, temp.desc),
     aka |-> merge_field(src.aka, temp.aka),
     tags |-> merge_field(src.tags, temp.tags)]

merge_character(src, temp) ==
    [title |-> merge_title(src.title, temp.title),
     image |-> merge_field(src.image, temp.image),
     desc |-> merge_field(src.desc, temp.desc),
     aka |-> merge_field(src.aka, temp.aka),
     tags |-> merge_field(src.tags, temp.tags),
     notes |-> merge_field(src.notes, temp.notes),
     bio |-> merge_field(src.bio, temp.bio),
     goals |-> merge_field(src.goals, temp.goals),
     fullName |-> merge_field(src.fullName, temp.fullName),
     isMajor |-> merge_field(src.isMajor, temp.isMajor)]

\* the dict rebuilt over the source's order list
MergeSection(srcSrt, srcDict, tgtDict, fresh, mergeOne(_, _)) ==
    [id \in Range(srcSrt) |->
        mergeOne(srcDict[id], IF id \in DOMAIN tgtDict THEN tgtDict[id] ELSE fresh)]

merge_locations(n, src) ==
    IF src.srtLocations = << >> THEN n
    ELSE [n EXCEPT !.srtLocations = src.srtLocations,
                   !.locations = MergeSection(src.srtLocations, src.locations, n.locations,
                                              WorldElement, merge_location)]

merge_items(n, src) ==
    IF src.srtItems = << >> THEN n
    ELSE [n EXCEPT !.srtItems = src.srtItems,
                   !.items = MergeSection(src.srtItems, src.items, n.items,
                                          WorldElement, merge_item)]

merge_characters(n, src) ==
    IF src.srtCharacters = << >> THEN n
    ELSE [n EXCEPT !.srtCharacters = src.srtCharacters,
                   !.characters = MergeSection(src.srtCharacters, src.characters,
                                               n.characters, Character, merge_character)]

\* the project notes loop reads self._prn_KWVAR, which no class defines: the
\* first pass raises AttributeError after title and desc of the first note
merge_projectnotes_raises(src) == src.srtPrjNotes # << >>

merge_projectnotes(n, src) ==
    IF src.srtPrjNotes = << >> THEN n
    ELSE LET pnId == src.srtPrjNotes[1]
             temp == IF pnId \in DOMAIN n.projectNotes THEN n.projectNotes[pnId]
                     ELSE BasicElement
         IN  [n EXCEPT !.srtPrjNotes = src.srtPrjNotes,
                       !.projectNotes =
                           Put(EmptyDict, pnId,
                               [title |-> merge_title(src.projectNotes[pnId].title, temp.title),
                                desc |-> merge_field(src.projectNotes[pnId].desc, temp.desc)])]

\* "if source.x is not None: self.x = [id for id in source.x if id in self.dict]"
merge_refs(srcRefs, tgtRefs, dict) ==
    IF srcRefs # None THEN Some(ValidIds(Val(srcRefs), DOMAIN dict)) ELSE tgtRefs

merge_scene(n, src, tgt) ==
    LET specific == Truthy(src.date) \/ Truthy(src.time)
        unspecific == Truthy(src.minute) \/ Truthy(src.hour) \/ Truthy(src.day)
    IN  SetIfNotNone(
        [title |-> merge_title(src.title, tgt.title),
         desc |-> merge_field(src.desc, tgt.desc),
         sceneContent |-> tgt.sceneContent,
         wordCount |-> tgt.wordCount, letterCount |-> tgt.letterCount,
         scType |-> merge_field(src.scType, tgt.scType),
         doNotExport |-> tgt.doNotExport,
         status |-> merge_field(src.status, tgt.status),
         tags |-> merge_field(src.tags, tgt.tags),
         appendToPrev |-> merge_field(src.appendToPrev, tgt.appendToPrev),
         goal |-> merge_field(src.goal, tgt.goal),
         conflict |-> merge_field(src.conflict, tgt.conflict),
         outcome |-> merge_field(src.outcome, tgt.outcome),
         characters |-> merge_refs(src.characters, tgt.characters, n.characters),
         locations |-> merge_refs(src.locations, tgt.locations, n.locations),
         items |-> merge_refs(src.items, tgt.items, n.items),
         date |-> IF specific THEN merge_field(src.date, tgt.date)
                  ELSE IF unspecific THEN None ELSE tgt.date,
         time |-> IF specific THEN merge_field(src.time, tgt.time)
                  ELSE IF unspecific THEN None ELSE tgt.time,
         day |-> merge_field(src.day, tgt.day),
         hour |-> merge_field(src.hour, tgt.hour),
         minute |-> merge_field(src.minute, tgt.minute)],
        src.sceneContent)

merge_scenes(n, src) ==
    [n EXCEPT !.scenes =
        [scId \in (DOMAIN n.scenes) \cup (DOMAIN src.scenes) |->
            IF scId \in DOMAIN src.scenes
            THEN merge_scene(n, src.scenes[scId],
                             IF scId \in DOMAIN n.scenes THEN n.scenes[scId] ELSE Scene)
            ELSE n.scenes[scId]]]

sourceHasSceneContent(src) ==
    \E scId \in DOMAIN src.scenes : src.scenes[scId].sceneContent # None

\* the scenes of the target chapter that stay: those the source chapter
\* lists, and those the source does not hold at all
RECURSIVE kept_scenes(_, _, _)
kept_scenes(tgtSrt, srcSrt, srcScenes) ==
    IF tgtSrt = << >> THEN << >>
    ELSE (IF InList(tgtSrt[1], srcSrt) \/ tgtSrt[1] \notin DOMAIN srcScenes
          THEN << tgtSrt[1] >> ELSE << >>) \o kept_scenes(Tail(tgtSrt), srcSrt, srcScenes)

merge_chapter(source_, src, tgt) ==
    [title |-> merge_title(src.title, tgt.title),
     desc |-> merge_field(src.desc, tgt.desc),
     chLevel |-> merge_field(src.chLevel, tgt.chLevel),
     chType |-> merge_field(src.chType, tgt.chType),
     suppressChapterTitle |-> merge_field(src.suppressChapterTitle, tgt.suppressChapterTitle),
     isTrash |-> merge_field(src.isTrash, tgt.isTrash),
     suppressChapterBreak |-> merge_field(src.suppressChapterBreak, tgt.suppressChapterBreak),
     srtScenes |-> merge_lists(src.srtScenes,
                               kept_scenes(tgt.srtScenes, src.srtScenes, source_.scenes))]

merge_chapters(n, src) ==
    [n EXCEPT !.chapters =
        [chId \in (DOMAIN n.chapters) \cup (DOMAIN src.chapters) |->
            IF chId \in DOMAIN src.chapters
            THEN merge_chapter(src, src.chapters[chId],
                               IF chId \in DOMAIN n.chapters THEN n.chapters[chId]
                               ELSE Chapter)
            ELSE n.chapters[chId]]]

merge_project(n, src) ==
    [n EXCEPT !.title = merge_title(src.title, n.title),
              !.desc = merge_field(src.desc, n.desc),
              !.authorName = merge_field(src.authorName, n.authorName),
              !.authorBio = merge_field(src.authorBio, n.authorBio),
              !.srtChapters = merge_lists(src.srtChapters, n.srtChapters)]

\* merge up to the call of the splitter: the target after the regular merging
merged(n, src) ==
    merge_project(
        merge_chapters(
            merge_scenes(
                merge_characters(merge_items(merge_locations(n, src), src), src),
                src),
            src),
        src)


----------------------------------------------------------------------------
(* The calls, as functions of the state they find *)

\* the sections read before the scenes
read_before_scenes(n, root) ==
    read_projectnotes(
        read_characters(
            read_items(read_locations(read_project(n, root.PROJECT), root), root),
            root),
        root)

\* Yw7File.read(): the lock test, ET.parse, the section readers
ReadCall(n, t, f, lk) ==
    IF lk \/ f = None \/ ~Val(f).wellFormed
    THEN [ret |-> "error", novel |-> n, tree |-> t]
    ELSE [ret |-> IF read_raises(Val(f).root) THEN "raised" ELSE "ok",
          novel |-> IF read_raises(Val(f).root) THEN read_before_scenes(n, Val(f).root)
                    ELSE read(n, Val(f).root),
          tree |-> Some(Val(f).root)]

\* the state after a tree was built and written
WriteOk(n, built, f, b) ==
    [ret |-> "ok", novel |-> n, tree |-> Some(built), file |-> Some(Written(built)),
     bak |-> IF f # None THEN f ELSE b]

\* what can fail on disk during a write: moving the file to its '.bak'
\* sibling, writing the file, writing the post-processed text
Faults == {"none", "replace", "write", "post"}

\* _write_element_tree (the file becomes the '.bak' sibling; when tree.write
\* fails the sibling is moved back) and _postprocess_xml_file (when its write
\* fails the file holds a part of the text, and the sibling stays)
WriteFile(n, built, f, b, flt) ==
    IF f # None /\ flt = "replace"
    THEN [ret |-> "raised", novel |-> n, tree |-> Some(built), file |-> f, bak |-> b]
    ELSE IF flt = "write"
    THEN [ret |-> "error", novel |-> n, tree |-> Some(built), file |-> f,
          bak |-> IF f # None THEN None ELSE b]
    ELSE IF flt = "post"
    THEN [ret |-> "error", novel |-> n, tree |-> Some(built),
          file |-> Some([root |-> FromFile(built), wellFormed |-> FALSE]),
          bak |-> IF f # None THEN f ELSE b]
    ELSE WriteOk(n, built, f, b)

\* write() without the lock test
WriteCall_unlocked(n, t, f, b, lk, flt) ==
    IF build_raises(n)
    THEN [ret |-> "raised", novel |-> n, tree |-> t, file |-> f, bak |-> b]
    ELSE WriteFile(after_build(n), _build_element_tree(n, t), f, b, flt)

\* Yw7File.write(): the lock test, _build_element_tree, _write_element_tree
\* and _postprocess_xml_file
WriteCall(n, t, f, b, lk, flt) ==
    IF lk THEN [ret |-> "error", novel |-> n, tree |-> t, file |-> f, bak |-> b]
    ELSE IF build_raises(n)
    THEN [ret |-> "raised", novel |-> n, tree |-> t, file |-> f, bak |-> b]
    ELSE WriteFile(after_build(n), _build_element_tree(n, t), f, b, flt)

\* Splitter.split_scenes(novel) called on its own, from what it left
SplitResult(n, st) ==
    [ret |-> IF st.fail = "" THEN "ok" ELSE st.fail,
     novel |-> st.n,
     pre |-> [target |-> n, split |-> n, ran |-> TRUE, returned |-> st.scenesSplit]]

SplitCall(n) == SplitResult(n, split_scenes(n))

\* the end of merge: adjust_scene_types on the target m, which was n when
\* merge began and m2 when the regular merging was done
MergeEnd(n, m2, m, ran) ==
    [ret |-> IF adjust_raises(m) THEN "raised" ELSE "ok",
     novel |-> IF adjust_raises(m) THEN m ELSE adjust_scene_types(m),
     pre |-> [target |-> n, split |-> m2, ran |-> ran, returned |-> ran /\ m.scenesSplit]]

\* "self.scenesSplit = sceneSplitter.split_scenes(self)" and the end of merge
MergeSplit(n, m2, st) ==
    IF st.fail # ""
    THEN [ret |-> st.fail, novel |-> st.n,
          pre |-> [target |-> n, split |-> m2, ran |-> TRUE, returned |-> FALSE]]
    ELSE MergeEnd(n, m2, [st.n EXCEPT !.scenesSplit = st.scenesSplit], TRUE)

\* merge from the scenes on, m2 being the target after the regular merging
MergeRest(n, m2, hasContent) ==
    IF hasContent THEN MergeSplit(n, m2, split_scenes(m2))
    ELSE MergeEnd(n, m2, m2, FALSE)

\* Yw7File.merge(source) after its read
MergeFrom(n, src) ==
    IF merge_projectnotes_raises(src)
    THEN [ret |-> "raised",
          novel |-> merge_projectnotes(
                        merge_characters(merge_items(merge_locations(n, src), src), src),
                        src),
          pre |-> [target |-> n, split |-> n, ran |-> FALSE, returned |-> FALSE]]
    ELSE MergeRest(n, merged(n, src), sourceHasSceneContent(src))

\* merge after its read, whose outcome is r
MergeRead(r, src) ==
    IF r.ret # "ok"
    THEN [ret |-> r.ret, novel |-> r.novel, tree |-> r.tree,
          pre |-> [target |-> r.novel, split |-> r.novel, ran |-> FALSE,
                   returned |-> FALSE]]
    ELSE [tree |-> r.tree] @@ MergeFrom(r.novel, src)

\* Yw7File.merge(source): read first if the project file exists
MergeCall(n, t, f, lk, src) ==
    MergeRead(IF f # None THEN ReadCall(n, t, f, lk)
              ELSE [ret |-> "ok", novel |-> n, tree |-> t],
              src)

----------------------------------------------------------------------------
(* FileExport: merge, the template-based rendering and write *)

\* the templates of FileExport: class variables, '' unless a subclass or a
\* template file sets them
TemplateNames ==
    {"_fileHeader", "_partTemplate", "_chapterTemplate", "_notesPartTemplate",
     "_todoPartTemplate", "_notesChapterTemplate", "_todoChapterTemplate",
     "_unusedChapterTemplate", "_notExportedChapterTemplate", "_sceneTemplate",
     "_firstSceneTemplate", "_appendedSceneTemplate", "_notesSceneTemplate",
     "_todoSceneTemplate", "_unusedSceneTemplate", "_notExportedSceneTemplate",
     "_sceneDivider", "_chapterEndTemplate", "_unusedChapterEndTemplate",
     "_notExportedChapterEndTemplate", "_notesChapterEndTemplate",
     "_todoChapterEndTemplate", "_characterSectionHeading", "_characterTemplate",
     "_locationSectionHeading", "_locationTemplate", "_itemSectionHeading",
     "_itemTemplate", "_fileFooter", "_projectNoteTemplate"}

\* Filter.accept(source, eId) of a filter that rejects the given ids
accept(rejected, eId) == eId \notin rejected

\* Template(tpl).safe_substitute(mapping): the text is known by the template
\* and by the values of the mapping that tell two entities apart
Piece(tpl, id, num, words, letters) ==
    [tpl |-> tpl, id |-> id, num |-> num, words |-> words, letters |-> letters]

\* FileExport.merge(source)
FileExport_merge(tgt, src) ==
    [tgt EXCEPT
        !.title = IF src.title # None THEN src.title ELSE Some(<< >>),
        !.desc = IF src.desc # None THEN src.desc ELSE Some(<< >>),
        !.authorName = IF src.authorName # None THEN src.authorName ELSE Some(<< >>),
        !.authorBio = IF src.authorBio # None THEN src.authorBio ELSE Some(<< >>),
        !.srtChapters = IF src.srtChapters # << >> THEN src.srtChapters ELSE @,
        !.scenes = src.scenes,
        !.chapters = src.chapters,
        !.srtCharacters = IF src.srtCharacters # << >> THEN src.srtCharacters ELSE @,
        !.characters = IF src.srtCharacters # << >> THEN src.characters ELSE @,
        !.srtLocations = IF src.srtLocations # << >> THEN src.srtLocations ELSE @,
        !.locations = IF src.srtLocations # << >> THEN src.locations ELSE @,
        !.srtItems = IF src.srtItems # << >> THEN src.srtItems ELSE @,
        !.items = IF src.srtItems # << >> THEN src.items ELSE @,
        !.srtPrjNotes = IF src.srtPrjNotes # << >> THEN src.srtPrjNotes ELSE @,
        !.projectNotes = IF src.srtPrjNotes # << >> THEN src.projectNotes ELSE @]

\* _get_sceneMapping raises: Scene.STATUS[status] with a status that is None
\* or no index of STATUS, the title of a location or an item that is missing
sceneMapping_raises(n, scn) ==
    \/ scn.status = None
    \/ Val(scn.status) \notin 0..5
    \/ scn.locations # None /\ ~(Range(Val(scn.locations)) \subseteq DOMAIN n.locations)
    \/ scn.items # None /\ ~(Range(Val(scn.items)) \subseteq DOMAIN n.items)

\* _get_scenes, the branch a scene takes: the template of its kind, '' for
\* a content that is raw HTML or TeX
SceneBranch(scn, chp, doNotExport) ==
    IF scn.scType = Some(2) THEN "_todoSceneTemplate"
    ELSE IF scn.scType = Some(1) THEN "_notesSceneTemplate"
    ELSE IF scn.scType = Some(3) \/ chp.chType = Some(3) THEN "_unusedSceneTemplate"
    ELSE IF TruthyBool(scn.doNotExport) \/ doNotExport THEN "_notExportedSceneTemplate"
    ELSE IF /\ scn.sceneContent # None
            /\ \/ startswith(Val(scn.sceneContent), << "<", "H", "T", "M", "L", ">" >>)
               \/ startswith(Val(scn.sceneContent), << "<", "T", "E", "X", ">" >>)
    THEN ""
    ELSE "_sceneTemplate"

\* _get_scenes, the branches that end with 'continue'
SceneSkipped(templates, branch) ==
    branch = "" \/ (branch # "_sceneTemplate" /\ branch \notin templates)

\* _get_scenes, the template a scene that is not skipped is rendered with
SceneTemplate(templates, scn, branch, first) ==
    IF first /\ "_firstSceneTemplate" \in templates THEN "_firstSceneTemplate"
    ELSE IF /\ branch = "_sceneTemplate" /\ ~first /\ TruthyBool(scn.appendToPrev)
            /\ "_appendedSceneTemplate" \in templates
    THEN "_appendedSceneTemplate"
    ELSE branch

\* _get_scenes, the else branch: the scene is numbered and counted
SceneCounted(acc, scn, branch) ==
    IF branch = "_sceneTemplate"
    THEN [acc EXCEPT !.sceneNumber = @ + 1,
                     !.wordsTotal = @ + scn.wordCount,
                     !.lettersTotal = @ + scn.letterCount]
    ELSE acc

\* _get_scenes, the end of the loop body: the divider and the scene
SceneLines(templates, scId, scn, branch, acc) ==
    [acc EXCEPT
        !.lines = @ \o (IF acc.first \/ TruthyBool(scn.appendToPrev) THEN << >>
                        ELSE << Piece("_sceneDivider", "", 0, 0, 0) >>)
                    \o << Piece(SceneTemplate(templates, scn, branch, acc.first), scId,
                                IF branch = "_sceneTemplate" THEN acc.sceneNumber ELSE 0,
                                acc.wordsTotal, acc.lettersTotal) >>,
        !.first = FALSE]

\* _get_scenes, the loop body
SceneStep(cfg, scId, scn, branch, acc) ==
    IF ~accept(cfg.reject.scenes, scId) \/ SceneSkipped(cfg.templates, branch) THEN acc
    ELSE SceneLines(cfg.templates, scId, scn, branch, SceneCounted(acc, scn, branch))

RECURSIVE get_scenes_loop(_, _, _, _, _, _)
get_scenes_loop(n, cfg, chp, doNotExport, i, acc) ==
    IF i > Len(chp.srtScenes) THEN acc
    ELSE get_scenes_loop(n, cfg, chp, doNotExport, i + 1,
             SceneStep(cfg, chp.srtScenes[i], n.scenes[chp.srtScenes[i]],
                       SceneBranch(n.scenes[chp.srtScenes[i]], chp, doNotExport), acc))

\* FileExport._get_scenes
_get_scenes(n, cfg, chp, sceneNumber, wordsTotal, lettersTotal, doNotExport) ==
    get_scenes_loop(n, cfg, chp, doNotExport, 1,
                    [lines |-> << >>, sceneNumber |-> sceneNumber, wordsTotal |-> wordsTotal,
                     lettersTotal |-> lettersTotal, first |-> TRUE])

\* _get_chapters: has the chapter only scenes not to be exported?
ChapterDoNotExport(n, chp) ==
    /\ Len(chp.srtScenes) > 0
    /\ \A i \in 1..Len(chp.srtScenes) : TruthyBool(n.scenes[chp.srtScenes[i]].doNotExport)

\* _get_chapters, the branch a chapter takes: the template of its heading
ChapterTemplate(templates, chp, doNotExport) ==
    IF chp.chType = Some(2)
    THEN IF chp.chLevel = Some(1) THEN "_todoPartTemplate" ELSE "_todoChapterTemplate"
    ELSE IF chp.chType = Some(1)
    THEN IF chp.chLevel = Some(1) THEN "_notesPartTemplate" ELSE "_notesChapterTemplate"
    ELSE IF chp.chType = Some(3) THEN "_unusedChapterTemplate"
    ELSE IF doNotExport THEN "_notExportedChapterTemplate"
    ELSE IF chp.chLevel = Some(1) /\ "_partTemplate" \in templates THEN "_partTemplate"
    ELSE "_chapterTemplate"

\* _get_chapters, the template of the chapter ending
ChapterEndTemplate(chp, doNotExport) ==
    IF chp.chType = Some(2) THEN "_todoChapterEndTemplate"
    ELSE IF chp.chType = Some(1) THEN "_notesChapterEndTemplate"
    ELSE IF chp.chType = Some(3) THEN "_unusedChapterEndTemplate"
    ELSE IF doNotExport THEN "_notExportedChapterEndTemplate"
    ELSE "_chapterEndTemplate"

\* "if template is not None: lines.append(...)": the plain chapter template
\* is applied even when it is empty
ChapterLine(templates, tpl, chId, dispNumber) ==
    IF tpl \in templates \/ tpl = "_chapterTemplate"
    THEN << Piece(tpl, chId, dispNumber, 0, 0) >>
    ELSE << >>

\* _get_chapters, the loop body from the heading on: chapterNumber is the
\* number after the heading, scenes what _get_scenes returned
ChapterLines(templates, chId, tpl, endTpl, chapterNumber, scenes, lines) ==
    [lines |-> lines
               \o ChapterLine(templates, tpl, chId,
                              IF tpl = "_chapterTemplate" THEN chapterNumber ELSE 0)
               \o scenes.lines
               \o ChapterLine(templates, endTpl, chId,
                              IF tpl = "_chapterTemplate" THEN chapterNumber ELSE 0),
     chapterNumber |-> chapterNumber,
     sceneNumber |-> scenes.sceneNumber,
     wordsTotal |-> scenes.wordsTotal,
     lettersTotal |-> scenes.lettersTotal]

\* _get_chapters, the loop body
ChapterStep(n, cfg, chId, chp, doNotExport, tpl, acc) ==
    IF ~accept(cfg.reject.chapters, chId) THEN acc
    ELSE ChapterLines(cfg.templates, chId, tpl, ChapterEndTemplate(chp, doNotExport),
                      IF tpl = "_chapterTemplate" THEN acc.chapterNumber + 1
                      ELSE acc.chapterNumber,
                      _get_scenes(n, cfg, chp, acc.sceneNumber, acc.wordsTotal,
                                  acc.lettersTotal, doNotExport),
                      acc.lines)

RECURSIVE get_chapters_loop(_, _, _, _)
get_chapters_loop(n, cfg, i, acc) ==
    IF i > Len(n.srtChapters) THEN acc
    ELSE get_chapters_loop(n, cfg, i + 1,
             ChapterStep(n, cfg, n.srtChapters[i], n.chapters[n.srtChapters[i]],
                         ChapterDoNotExport(n, n.chapters[n.srtChapters[i]]),
                         ChapterTemplate(cfg.templates, n.chapters[n.srtChapters[i]],
                             ChapterDoNotExport(n, n.chapters[n.srtChapters[i]])),
                         acc))

\* FileExport._get_chapters
_get_chapters(n, cfg) ==
    get_chapters_loop(n, cfg, 1,
                      [lines |-> << >>, chapterNumber |-> 0, sceneNumber |-> 0,
                       wordsTotal |-> 0, lettersTotal |-> 0]).lines

\* the loop of _get_characters, _get_locations, _get_items, _get_projectNotes
ElementLines(tpl, srt, rejected) ==
    LET Accepted(eId) == accept(rejected, eId)
    IN  [i \in 1..Len(SelectSeq(srt, Accepted)) |->
            Piece(tpl, SelectSeq(srt, Accepted)[i], 0, 0, 0)]

\* "if self._characterSectionHeading: lines = [self._characterSectionHeading]"
SectionHeading(templates, heading) ==
    IF heading \in templates THEN << Piece(heading, "", 0, 0, 0) >> ELSE << >>

\* FileExport._get_characters
_get_characters(n, cfg) ==
    SectionHeading(cfg.templates, "_characterSectionHeading")
    \o ElementLines("_characterTemplate", n.srtCharacters, cfg.reject.characters)

\* FileExport._get_locations
_get_locations(n, cfg) ==
    SectionHeading(cfg.templates, "_locationSectionHeading")
    \o ElementLines("_locationTemplate", n.srtLocations, cfg.reject.locations)

\* FileExport._get_items
_get_items(n, cfg) ==
    SectionHeading(cfg.templates, "_itemSectionHeading")
    \o ElementLines("_itemTemplate", n.srtItems, cfg.reject.items)

\* FileExport._get_projectNotes: no filter
_get_projectNotes(n) == ElementLines("_projectNoteTemplate", n.srtPrjNotes, {})

\* ''.join(lines): what an empty template gives is not seen in the text
joined(templates, lines) ==
    LET NotEmpty(piece) == piece.tpl \in templates
    IN  SelectSeq(lines, NotEmpty)

\* _get_text with the characters ahead of the chapters
_get_text_reordered(n, cfg) ==
    joined(cfg.templates,
           << Piece("_fileHeader", "", 0, 0, 0) >>
           \o _get_characters(n, cfg)
           \o _get_chapters(n, cfg)
           \o _get_locations(n, cfg)
           \o _get_items(n, cfg)
           \o _get_projectNotes(n)
           \o << Piece("_fileFooter", "", 0, 0, 0) >>)

\* FileExport._get_text
_get_text(n, cfg) ==
    joined(cfg.templates,
           << Piece("_fileHeader", "", 0, 0, 0) >>
           \o _get_chapters(n, cfg)
           \o _get_characters(n, cfg)
           \o _get_locations(n, cfg)
           \o _get_items(n, cfg)
           \o _get_projectNotes(n)
           \o << Piece("_fileFooter", "", 0, 0, 0) >>)

\* _get_text raises: the mapping of a scene that is rendered raises
get_text_raises(n, cfg) ==
    \E i \in 1..Len(n.srtChapters) :
        /\ accept(cfg.reject.chapters, n.srtChapters[i])
        /\ \E j \in 1..Len(n.chapters[n.srtChapters[i]].srtScenes) :
               /\ accept(cfg.reject.scenes, n.chapters[n.srtChapters[i]].srtScenes[j])
               /\ ~SceneSkipped(cfg.templates,
                       SceneBranch(n.scenes[n.chapters[n.srtChapters[i]].srtScenes[j]],
                                   n.chapters[n.srtChapters[i]],
                                   ChapterDoNotExport(n, n.chapters[n.srtChapters[i]])))
               /\ sceneMapping_raises(n, n.scenes[n.chapters[n.srtChapters[i]].srtScenes[j]])

\* FileExport.write(), from the text on: the file becomes the '.bak'
\* sibling, which is moved back when the text cannot be written
FileExport_write_text(text, f, b, flt) ==
    IF f # None /\ flt = "replace" THEN [ret |-> "error", file |-> f, bak |-> b]
    ELSE IF flt = "write"
    THEN [ret |-> "error", file |-> f, bak |-> IF f # None THEN None ELSE b]
    ELSE [ret |-> "ok", file |-> Some(text), bak |-> IF f # None THEN f ELSE b]

\* FileExport.write()
FileExport_write(n, cfg, f, b, flt) ==
    IF get_text_raises(n, cfg) THEN [ret |-> "raised", file |-> f, bak |-> b]
    ELSE FileExport_write_text(_get_text(n, cfg), f, b, flt)

\* the steps of YwCnv.convert, in the order of its code
ConvertSteps ==
    << "check source", "check target", "confirm overwrite", "source.read", "target.merge",
       "target.write" >>

\* what convert leaves when it ends at its step number last
ConvertEnd(outcome, last, n, t, tgt, f, b) ==
    [ret |-> outcome, steps |-> SubSeq(ConvertSteps, 1, last), novel |-> n, tree |-> t,
     target |-> tgt, file |-> f, bak |-> b]

\* convert, "return target.write()", w being what write leaves
ConvertWrite(r, tgt, w) == ConvertEnd(w.ret, 6, r.novel, r.tree, tgt, w.file, w.bak)

\* convert from source.read() on, r being what read leaves; merge returns no
\* error message
ConvertRead(r, tgt, cfg, f, b, flt) ==
    IF r.ret # "ok" THEN ConvertEnd(r.ret, 4, r.novel, r.tree, tgt, f, b)
    ELSE ConvertWrite(r, FileExport_merge(tgt, r.novel),
                      FileExport_write(FileExport_merge(tgt, r.novel), cfg, f, b, flt))

\* YwCnv.convert(source, target): sourcePath and targetPath tell whether the
\* filePath of the instance is set; os.path.normpath(None) raises a TypeError
convert(sourcePath, targetPath, confirm, n, t, r, projectFile, tgt, cfg, f, b, flt) ==
    IF ~sourcePath THEN ConvertEnd("raised", 1, n, t, tgt, f, b)
    ELSE IF projectFile = None THEN ConvertEnd("error", 1, n, t, tgt, f, b)
    ELSE IF ~targetPath THEN ConvertEnd("raised", 2, n, t, tgt, f, b)
    ELSE IF f # None /\ ~confirm THEN ConvertEnd("error", 3, n, t, tgt, f, b)
    ELSE ConvertRead(r, tgt, cfg, f, b, flt)

----------------------------------------------------------------------------
(* Project files and merge sources the model starts from *)

T(s) == El(Some(s))

\* scene contents: without markers, with each marker kind at the end, at the
\* start and in the middle, with two markers, and the example of a scene split
Contents ==
    { << "a", "b" >>, << "a", "\n" >>, << "a", "\n", " ", "#", "b" >>,
      << "P", "a", "r", "a", " ", "o", "n", "e", ".", "\n", "#", "#", "#", "S", "p", "l", "i", "t", "T", "i", "t", "l", "e", "|", "S", "p", "l", "i", "t", " ", "d", "e", "s", "c", "\n", "P", "a", "r", "a", " ", "t", "w", "o", "." >>,
      << "a", "\n", "#", "#", "#", "T", "|", "D", "\n", "b", "\n", "#", "#", "#", "U", "|", "E", "\n", "c" >>, << "a", "\n", "#", "#", "#", "\n", "b" >>, << "#", "#", "#", "T", "\n", "b" >>, << "a", "\n", "#", "#", "#", "T", "|", "D" >>,
      << "a", "\n", "#", "#", "C", "|", "D", "\n", "b" >>, << "#", "#", "\n", "b" >>, << "a", "\n", "#", "#", "C" >>,
      << "a", "\n", "#", "P", "|", "D", "\n", "b" >>, << "#", "P" >>, << "a", "\n", "#", "P" >>,
      << "a", "\n", "#", "P", "\n", "#", "#", "C", "\n", "b", "\n", "#", "#", "#", "T", "\n", "c" >>,
      << "a", "-", "b", " ", "[", "i", "]", "c", "-", "-", "d", "\n", ">", "e", " ", "/", "*", "x", "*", "/" >> }

BaseScene == 
    [XmlScene("1") EXCEPT !.Title = T(<< "s" >>), !.Desc = T(<< "d" >>), !.Status = T(<< "1" >>),
                          !.Characters = Some(<< "2" >>), !.Locations = Some(<< "1" >>),
                          !.SceneContent = T(<< "a", "b" >>)]

\* scenes that differ from the base scene in one respect
SceneVariants ==
    {[BaseScene EXCEPT !.SceneContent = T(c)] : c \in Contents}
    \cup {[BaseScene EXCEPT !.SceneContent = Absent],
          [BaseScene EXCEPT !.SceneContent = El(None)],
          [BaseScene EXCEPT !.SceneContent = T(<< "a", "\n", "#", "#", "#", "T", "|", "D", "\n", "b" >>), !.Status = Absent],
          [BaseScene EXCEPT !.SceneContent = T(<< "a", "\n", "#", "#", "#", "T", "\n", "b" >>), !.Status = T(<< "5" >>),
                            !.Goal = T(<< "g" >>), !.Conflict = T(<< "(", "!", ")", "c" >>)],
          [BaseScene EXCEPT !.SceneContent = T(<< "a", "\n", "#", "#", "#", "\n", "b" >>),
                            !.Title = T(<< "A", " ", "t", "i", "t", "l", "e", " ", "o", "f", " ", "2", "1", " ", "l", "e", "t", "t", "e", "r", "s" >>)],
          [BaseScene EXCEPT !.SceneContent = T(<< "a", "\n", "#", "#", "#", "\n", "b" >>), !.Title = Absent],
          [BaseScene EXCEPT !.Tags = T(<< " ", ";", " " >>)],
          [BaseScene EXCEPT !.Tags = T(<< "x", ";", " ", "y", ";", "x" >>)],
          [BaseScene EXCEPT !.Day = T(<< "1" >>), !.Hour = T(<< "2" >>), !.Minute = T(<< "3" >>)],
          [BaseScene EXCEPT !.Day = T(<< "&" >>)],
          [BaseScene EXCEPT !.SpecificDateTime = T(<< "1", "-", "2", " ", "3", ":", "4" >>), !.SpecificDateMode = TRUE],
          [BaseScene EXCEPT !.SpecificDateTime = T(<< "1", "-", "2", " ", "3", ":", "4" >>), !.SpecificDateMode = TRUE,
                            !.Day = T(<< "1" >>), !.Hour = T(<< "2" >>), !.Minute = T(<< "3" >>)],
          [BaseScene EXCEPT !.SpecificDateTime = El(None), !.SpecificDateMode = TRUE],
          [BaseScene EXCEPT !.SpecificDateTime = T(<< "x" >>), !.SpecificDateMode = TRUE],
          [BaseScene EXCEPT !.AppendToPrev = TRUE, !.ExportCondSpecific = TRUE],
          [BaseScene EXCEPT !.Characters = Some(<< "2", "3", "1" >>)]}

\* the signals of the scene kind, in every combination
SceneKindVariants ==
    {[BaseScene EXCEPT !.Unused = u, !.Fields = fl] :
        u \in BOOLEAN,
        fl \in {None} \cup {Some([Field_SceneType |-> st]) :
                               st \in {Absent, T(<< "0" >>), T(<< "1" >>), T(<< "2" >>)}}}

BaseChapter ==
    [XmlChapter("1") EXCEPT !.Title = T(<< "c" >>), !.Scenes = Some(<< "1" >>),
                            !.Fields = Some(XmlChapterFields)]

\* a second chapter, of kind Notes, without scenes
NotesChapter ==
    [XmlChapter("2") EXCEPT !.Title = T(<< "n" >>), !.Unused = TRUE, !.Type = T(<< "1" >>),
                            !.ChapterType = T(<< "1" >>), !.Fields = Some(XmlChapterFields)]

ChapterVariants ==
    {[BaseChapter EXCEPT !.Title = T(<< "@", "x" >>), !.Fields = None],
     [BaseChapter EXCEPT !.Fields = None],
     [BaseChapter EXCEPT !.SectionStart = TRUE, !.Desc = T(<< "d" >>),
                         !.Fields = Some([XmlChapterFields EXCEPT
                                              !.Field_SuppressChapterTitle = T(<< "1" >>),
                                              !.Field_IsTrash = T(<< "1" >>),
                                              !.Field_SuppressChapterBreak = T(<< "0" >>)])],
     [BaseChapter EXCEPT !.Scenes = Some(<< "1", "4" >>)]}

\* the signals of the chapter kind, in every combination
ChapterKindVariants ==
    {[BaseChapter EXCEPT !.Unused = u, !.Type = ty, !.ChapterType = ct] :
        u \in BOOLEAN,
        ty \in {Absent, T(<< "0" >>), T(<< "1" >>)},
        ct \in {Absent, T(<< "0" >>), T(<< "1" >>), T(<< "2" >>)}}

Location1 ==
    [XmlWorldElement("1") EXCEPT !.Title = T(<< "L" >>), !.ImageFile = T(<< "i" >>),
                                 !.Desc = T(<< "d" >>), !.AKA = T(<< "k" >>), !.Tags = T(<< "x" >>)]

Character1 ==
    [XmlCharacter("1") EXCEPT !.Title = T(<< "A" >>), !.ImageFile = T(<< "i" >>),
                              !.Desc = T(<< "d" >>), !.AKA = T(<< "k" >>), !.Tags = T(<< "x" >>),
                              !.Notes = T(<< "n" >>), !.Bio = T(<< "b" >>), !.Goals = T(<< "g" >>),
                              !.FullName = T(<< "f" >>), !.Major = TRUE]

Character2 == [XmlCharacter("2") EXCEPT !.Title = T(<< "B" >>)]

\* a project file as it parses: one location, one item, two characters, a
\* scene in a Normal chapter, and a Notes chapter
ProjectFile(scn, chp) ==
    Some([root |->
              [PROJECT |-> [XmlProject EXCEPT !.Title = T(<< "T" >>), !.AuthorName = T(<< "a" >>)],
               LOCATIONS |-> << Location1 >>,
               ITEMS |-> << Location1 >>,
               CHARACTERS |-> << Character1, Character2 >>,
               PROJECTNOTES |-> None,
               SCENES |-> Put(EmptyDict, "1", scn),
               CHAPTERS |-> << chp, NotesChapter >>],
          wellFormed |-> TRUE])

BaseFile == ProjectFile(BaseScene, BaseChapter)

\* the base file with its chapter 1 of kind Todo
TodoFile ==
    ProjectFile(BaseScene,
                [BaseChapter EXCEPT !.Unused = TRUE, !.Type = T(<< "1" >>),
                                    !.ChapterType = T(<< "2" >>)])

SceneFiles == {ProjectFile(scn, BaseChapter) : scn \in SceneVariants}

ChapterFiles == {ProjectFile(BaseScene, chp) : chp \in ChapterVariants}

KindFiles ==
    {ProjectFile(scn, BaseChapter) : scn \in SceneKindVariants}
    \cup {ProjectFile(BaseScene, chp) : chp \in ChapterKindVariants}

\* a source that holds the entities of the base file with blank titles and
\* no other value
SrcBlank ==
    [Novel EXCEPT
        !.title = Some(<< >>),
        !.srtLocations = << "1" >>, !.locations = Put(EmptyDict, "1", WorldElement),
        !.srtItems = << "1" >>,
        !.items = Put(EmptyDict, "1", [WorldElement EXCEPT !.title = Some(<< >>)]),
        !.srtCharacters = << "1", "2" >>,
        !.characters = Put(Put(EmptyDict, "1", Character), "2",
                           [Character EXCEPT !.title = Some(<< >>)]),
        !.srtChapters = << "1" >>,
        !.chapters = Put(EmptyDict, "1", [Chapter EXCEPT !.srtScenes = << "1" >>]),
        !.scenes = Put(EmptyDict, "1", [Scene EXCEPT !.title = Some(<< >>)])]

\* a source that sets every field of the entities of the base file
SrcFull ==
    [Novel EXCEPT
        !.title = Some(<< "U" >>), !.desc = Some(<< "e" >>),
        !.srtLocations = << "1" >>,
        !.locations = Put(EmptyDict, "1",
            [title |-> Some(<< "M" >>), desc |-> Some(<< "e" >>), image |-> Some(<< "j" >>),
             tags |-> Some(<< << "y" >> >>), aka |-> Some(<< "l" >>)]),
        !.srtItems = << "1" >>,
        !.items = Put(EmptyDict, "1",
            [title |-> Some(<< "M" >>), desc |-> Some(<< "e" >>), image |-> Some(<< "j" >>),
             tags |-> Some(<< << "y" >> >>), aka |-> Some(<< "l" >>)]),
        !.srtCharacters = << "2", "1" >>,
        !.characters = Put(Put(EmptyDict, "2", [Character EXCEPT !.title = Some(<< "C" >>)]), "1",
            [title |-> Some(<< "M" >>), desc |-> Some(<< "e" >>), image |-> Some(<< "j" >>),
             tags |-> Some(<< << "y" >> >>), aka |-> Some(<< "l" >>), notes |-> Some(<< "o" >>),
             bio |-> Some(<< "c" >>), goals |-> Some(<< "h" >>), fullName |-> Some(<< "F" >>),
             isMajor |-> Some(FALSE)]),
        !.srtChapters = << "1" >>,
        !.chapters = Put(EmptyDict, "1",
            [Chapter EXCEPT !.title = Some(<< "C" >>), !.desc = Some(<< "e" >>),
                            !.srtScenes = << "1" >>]),
        !.scenes = Put(EmptyDict, "1",
            [Scene EXCEPT !.title = Some(<< "S" >>), !.desc = Some(<< "e" >>),
                          !.characters = Some(<< "1", "3" >>),
                          !.locations = Some(<< >>),
                          !.day = Some(<< "1" >>)])]

\* a source that holds the first character only, and no scene
SrcCharacters ==
    [Novel EXCEPT !.srtCharacters = << "1" >>,
                  !.characters = Put(EmptyDict, "1", [Character EXCEPT !.title = Some(<< "A" >>)])]

\* a source that lists scene 1 under chapter 2 and does not hold chapter 1
SrcMoved ==
    [Novel EXCEPT !.srtChapters = << "2" >>,
                  !.chapters = Put(EmptyDict, "2", [Chapter EXCEPT !.srtScenes = << "1" >>]),
                  !.scenes = Put(EmptyDict, "1", Scene)]

\* a source that lists scene 1 under chapter 2 and holds chapter 1 without it
SrcMovedBoth ==
    [Novel EXCEPT !.srtChapters = << "1", "2" >>,
                  !.chapters = Put(Put(EmptyDict, "1", Chapter), "2",
                                   [Chapter EXCEPT !.srtScenes = << "1" >>]),
                  !.scenes = Put(EmptyDict, "1", Scene)]

\* a source with a new chapter 3 between the chapters 1 and 2, a new scene 2
\* before scene 1 and a new scene 3 in the new chapter
SrcNew ==
    [Novel EXCEPT
        !.srtChapters = << "1", "3", "2" >>,
        !.chapters = Put(Put(Put(EmptyDict,
            "1", [Chapter EXCEPT !.srtScenes = << "2", "1" >>]),
            "3", [Chapter EXCEPT !.title = Some(<< "N" >>), !.chType = Some(2),
                                 !.srtScenes = << "3" >>]),
            "2", Chapter),
        !.scenes = Put(Put(Put(EmptyDict,
            "1", Scene),
            "2", [Scene EXCEPT !.title = Some(<< "t" >>), !.status = Some(1)]),
            "3", [Scene EXCEPT !.title = Some(<< "u" >>), !.scType = Some(0)])]

\* a source with a project note
SrcNotes ==
    [Novel EXCEPT !.srtPrjNotes = << "1" >>,
                  !.projectNotes = Put(EmptyDict, "1", [BasicElement EXCEPT !.title = Some(<< "N" >>)])]

\* a source that brings the content of scene 1
SrcContent(c) ==
    [Novel EXCEPT !.srtChapters = << "1" >>,
                  !.chapters = Put(EmptyDict, "1", [Chapter EXCEPT !.srtScenes = << "1" >>]),
                  !.scenes = Put(EmptyDict, "1",
                                 sceneContent([Scene EXCEPT !.status = Some(1)], c))]

\* a source that sets the kind of chapter 1 and of its scene 1
SrcKind(chType, scType) ==
    [Novel EXCEPT !.srtChapters = << "1" >>,
                  !.chapters = Put(EmptyDict, "1",
                                   [Chapter EXCEPT !.title = Some(<< "c" >>), !.chType = Some(chType),
                                                   !.srtScenes = << "1" >>]),
                  !.scenes = Put(EmptyDict, "1",
                                 [Scene EXCEPT !.title = Some(<< "s" >>), !.scType = Some(scType)])]

Sources ==
    {Novel, SrcBlank, SrcFull, SrcCharacters, SrcMoved, SrcMovedBoth, SrcNew, SrcNotes}
    \cup {SrcContent(c) :
            c \in {<< "a", "b" >>, << "P", "a", "r", "a", " ", "o", "n", "e", ".", "\n", "#", "#", "#", "S", "p", "l", "i", "t", "T", "i", "t", "l", "e", "|", "S", "p", "l", "i", "t", " ", "d", "e", "s", "c", "\n", "P", "a", "r", "a", " ", "t", "w", "o", "." >>, << "a", "\n", "#", "P" >>}}

KindSources ==
    {SrcKind(0, k) : k \in 0..3} \cup {SrcKind(k, 0) : k \in 1..3}

\* what the model starts from: the base file with every source, locked or
\* not; no file, with every source; the other files with a source that
\* brings nothing; the file with a Todo chapter with the sources that move
\* its scene
Scenarios ==
    {[file |-> BaseFile, source |-> s, locked |-> lk] : s \in Sources, lk \in BOOLEAN}
    \cup {[file |-> None, source |-> s, locked |-> FALSE] : s \in Sources}
    \cup {[file |-> f, source |-> Novel, locked |-> FALSE] :
            f \in SceneFiles \cup ChapterFiles}
    \cup {[file |-> TodoFile, source |-> s, locked |-> FALSE] :
            s \in {SrcMoved, SrcMovedBoth}}

\* the kind files, and no file, with the sources that set a kind
KindScenarios ==
    {[file |-> f, source |-> s, locked |-> FALSE] :
        f \in KindFiles \cup {None}, s \in KindSources}

\* the base file, or no file, with a source that brings nothing, one that
\* sets every field and one that brings a content to split, locked or not
IOScenarios ==
    {[file |-> f, source |-> s, locked |-> lk] :
        f \in {BaseFile, None},
        s \in {Novel, SrcFull, SrcContent(<< "a", "\n", "#", "#", "#", "T", "\n", "b" >>)},
        lk \in BOOLEAN}

\* what FileExport is configured with: the templates that are not empty and
\* the ids its filters reject
Config(templates, scenes, chapters, characters) ==
    [templates |-> templates,
     reject |-> [scenes |-> scenes, chapters |-> chapters, characters |-> characters,
                 locations |-> {}, items |-> {}]]

\* every template set; no first-scene and no appended-scene template; no part
\* template; no scene template; only the templates of Normal chapters and
\* scenes; and filters that reject scene 1, or chapter 1 and character 1
ExportConfigs ==
    {Config(TemplateNames, {}, {}, {}),
     Config(TemplateNames \ {"_firstSceneTemplate", "_appendedSceneTemplate"}, {}, {}, {}),
     Config(TemplateNames \ {"_firstSceneTemplate", "_partTemplate"}, {}, {}, {}),
     Config(TemplateNames \ {"_firstSceneTemplate", "_appendedSceneTemplate", "_sceneTemplate"},
            {}, {}, {}),
     Config({"_fileHeader", "_chapterTemplate", "_sceneTemplate", "_sceneDivider",
             "_characterTemplate", "_fileFooter"}, {}, {}, {}),
     Config(TemplateNames \ {"_firstSceneTemplate", "_appendedSceneTemplate"}, {"1"}, {}, {}),
     Config(TemplateNames \ {"_firstSceneTemplate"}, {}, {"1"}, {"1"})}

\* a scene with a status and a content
ExportScene(id, content) ==
    [XmlScene(id) EXCEPT !.Title = T(<< "s" >>), !.Status = T(<< "2" >>),
                         !.SceneContent = T(content), !.Locations = Some(<< "1" >>)]

\* a chapter with scenes
ExportChapter(id, scenes) ==
    [XmlChapter(id) EXCEPT !.Title = T(<< "c" >>), !.Scenes = Some(scenes),
                           !.Fields = Some(XmlChapterFields)]

\* a chapter of a kind: the Unused flag, the Type and the ChapterType codes
KindChapter(id, scenes, unused, type, chapterType) ==
    [ExportChapter(id, scenes) EXCEPT !.Unused = unused, !.Type = T(type),
                                      !.ChapterType = T(chapterType)]

ExportProject(chapters, scenes) ==
    Some([root |->
              [PROJECT |-> [XmlProject EXCEPT !.Title = T(<< "T" >>)],
               LOCATIONS |-> << Location1 >>,
               ITEMS |-> << Location1 >>,
               CHARACTERS |-> << Character1, Character2 >>,
               PROJECTNOTES |-> Some(<< [XmlPrjNote("1") EXCEPT !.Title = T(<< "N" >>)] >>),
               SCENES |-> scenes,
               CHAPTERS |-> chapters],
          wellFormed |-> TRUE])

\* chapter 1 (Normal) with the scenes 1 and 2, chapter 2 (Todo) with scene 3
TwoChapters ==
    ExportProject(
        << ExportChapter("1", << "1", "2" >>),
           KindChapter("2", << "3" >>, TRUE, << "1" >>, << "2" >>) >>,
        Put(Put(Put(EmptyDict,
            "1", ExportScene("1", << "a", " ", "b" >>)),
            "2", ExportScene("2", << "c" >>)),
            "3", ExportScene("3", << "d", " ", "e", " ", "f" >>)))

\* chapter 1 begins a part; chapter 2 holds a scene, an appended scene, a
\* scene not to be exported, a scene of raw HTML and one more scene
PartAndChapter ==
    ExportProject(
        << [ExportChapter("1", << "1" >>) EXCEPT !.SectionStart = TRUE],
           ExportChapter("2", << "2", "3", "4", "5", "6" >>) >>,
        Put(Put(Put(Put(Put(Put(EmptyDict,
            "1", ExportScene("1", << "a", " ", "b" >>)),
            "2", ExportScene("2", << "c" >>)),
            "3", [ExportScene("3", << "d", " ", "e" >>) EXCEPT !.AppendToPrev = TRUE]),
            "4", [ExportScene("4", << "f" >>) EXCEPT !.ExportCondSpecific = TRUE]),
            "5", ExportScene("5", << "<", "H", "T", "M", "L", ">", "g" >>)),
            "6", ExportScene("6", << "h", "\n", "i" >>)))

\* a Notes chapter, an Unused chapter, a chapter whose only scene is not to
\* be exported, and a Normal chapter with a Todo scene, a Notes scene, an
\* unused scene and a Normal scene
EveryKind ==
    ExportProject(
        << KindChapter("1", << "1" >>, TRUE, << "1" >>, << "1" >>),
           KindChapter("2", << "2" >>, TRUE, << "0" >>, << "0" >>),
           ExportChapter("3", << "3" >>),
           ExportChapter("4", << "4", "5", "6", "7" >>) >>,
        Put(Put(Put(Put(Put(Put(Put(EmptyDict,
            "1", ExportScene("1", << "a" >>)),
            "2", ExportScene("2", << "b" >>)),
            "3", [ExportScene("3", << "c" >>) EXCEPT !.ExportCondSpecific = TRUE]),
            "4", [ExportScene("4", << "d" >>) EXCEPT
                      !.Unused = TRUE, !.Fields = Some([Field_SceneType |-> T(<< "2" >>)])]),
            "5", [ExportScene("5", << "e" >>) EXCEPT
                      !.Unused = TRUE, !.Fields = Some([Field_SceneType |-> T(<< "1" >>)])]),
            "6", [ExportScene("6", << "f" >>) EXCEPT !.Unused = TRUE]),
            "7", ExportScene("7", << "g", " ", "h" >>)))

\* a chapter whose second scene has no status
NoStatus ==
    ExportProject(
        << ExportChapter("1", << "1", "2" >>) >>,
        Put(Put(EmptyDict,
            "1", ExportScene("1", << "a" >>)),
            "2", [ExportScene("2", << "b" >>) EXCEPT !.Status = Absent]))

ExportProjects == {TwoChapters, PartAndChapter, EveryKind, NoStatus}

\* chapter 1 with the scenes 1, 2 and 3, chapter 2 with scene 4
OrderProject ==
    ExportProject(
        << ExportChapter("1", << "1", "2", "3" >>), ExportChapter("2", << "4" >>) >>,
        Put(Put(Put(Put(EmptyDict,
            "1", ExportScene("1", << "a" >>)),
            "2", ExportScene("2", << "b" >>)),
            "3", ExportScene("3", << "c" >>)),
            "4", ExportScene("4", << "d" >>)))

\* a source that holds the chapters of the list chs, chapter 1 with the scene
\* order c1 and chapter 2 with the scene order c2, and the scenes they list
SrcOrder(chs, c1, c2) ==
    [Novel EXCEPT
        !.srtChapters = chs,
        !.chapters = [ch \in Range(chs) |->
                         [Chapter EXCEPT !.srtScenes = IF ch = "1" THEN c1 ELSE c2]],
        !.scenes = [sc \in (IF InList("1", chs) THEN Range(c1) ELSE {})
                           \cup (IF InList("2", chs) THEN Range(c2) ELSE {}) |-> Scene]]

\* the sources that list every scene once: the scene orders as the file has
\* them, with new scenes, with the known scenes in another order, with a
\* scene moved to the other chapter; both chapters or one of them
OrderSources ==
    {SrcOrder(chs, c1, c2) :
        chs \in {<< "1", "2" >>, << "1" >>, << "2" >>},
        c1 \in {<< "1", "2", "3" >>, << "5", "1", "2", "3" >>, << "1", "5", "6", "2" >>,
                << "2", "5", "1", "6" >>, << "1", "2" >>, << >>},
        c2 \in {<< "4" >>, << "3", "4" >>, << "4", "1" >>, << >>}}

\* the project of two chapters and four scenes, the project with a Todo
\* chapter, and no file, with every source that lists a scene once
OrderScenarios ==
    {[file |-> f, source |-> s, locked |-> FALSE] :
        f \in {OrderProject, TwoChapters, None},
        s \in {src \in OrderSources :
                  \A sc \in DOMAIN src.scenes :
                      Cardinality({ch \in DOMAIN src.chapters :
                                      InList(sc, src.chapters[ch].srtScenes)}) <= 1}}

\* chapter 1 with scene 1, whose content holds a chapter marker and a scene
\* marker, and chapter 2 with scene 2
MarkerProject ==
    ExportProject(
        << ExportChapter("1", << "1" >>), ExportChapter("2", << "2" >>) >>,
        Put(Put(EmptyDict,
            "1", [ExportScene("1", << "a", "\n", "#", "#", "C", "\n", "b", "\n", "#", "#", "#", "T", "\n", "c" >>)
                      EXCEPT !.Desc = T(<< "d" >>)]),
            "2", ExportScene("2", << "e" >>)))

\* the projects that lose entities, with a source that brings nothing
RereadScenarios ==
    {[file |-> f, source |-> Novel, locked |-> FALSE] : f \in {TwoChapters, MarkerProject}}

\* the text of a target file that is there before the export
OldText == << Piece("", "old", 0, 0, 0) >>

\* the projects with every configuration, with and without a target file on
\* disk; the first project locked; no project file
ExportScenarios ==
    {[file |-> f, cfg |-> c, out |-> o, locked |-> FALSE] :
        f \in ExportProjects, c \in ExportConfigs, o \in {None, Some(OldText)}}
    \cup {[file |-> TwoChapters, cfg |-> Config(TemplateNames, {}, {}, {}), out |-> None,
           locked |-> TRUE],
          [file |-> None, cfg |-> Config(TemplateNames, {}, {}, {}), out |-> Some(OldText),
           locked |-> FALSE]}

----------------------------------------------------------------------------
(* The state machine: one Yw7File instance on one project file *)

NoPre == [target |-> Novel, split |-> Novel, ran |-> FALSE, returned |-> FALSE]

NoRoundTrip == [stage |-> 0, m1 |-> Novel]

\* nothing was removed from the project file
NoGone == [ids |-> {}, stage |-> 0, removals |-> 0]

\* what was removed is no longer told from what the instance brought
Forgotten(g) == [g EXCEPT !.ids = {}, !.stage = 0]

\* no export: a FileExport instance that is never used
NoExport ==
    [target |-> Novel, cfg |-> Config({}, {}, {}, {}), file |-> None, bak |-> None,
     newFile |-> None, steps |-> << >>]

\* Yw7File(filePath): no tree yet, the instance variables of Novel.__init__
Start(sc) ==
    /\ file = sc.file
    /\ source = sc.source
    /\ locked = sc.locked
    /\ bak = None
    /\ tree = None
    /\ novel = Novel
    /\ pre = NoPre
    /\ op = "init"
    /\ ret = "ok"
    /\ rt = NoRoundTrip
    /\ afterMerge = FALSE
    /\ exp = NoExport
    /\ gone = NoGone

Init == \E sc \in Scenarios : Start(sc)

InitKinds == \E sc \in KindScenarios : Start(sc)

\* a call of read(), r being its outcome
ReadStep(r) ==
    /\ ret # "raised"
    /\ novel' = r.novel
    /\ tree' = r.tree
    /\ ret' = r.ret
    /\ op' = "read"
    /\ pre' = NoPre
    /\ rt' = IF r.ret # "ok" THEN NoRoundTrip
             ELSE IF rt.stage = 2 THEN [rt EXCEPT !.stage = 3]
             ELSE [stage |-> 1, m1 |-> r.novel]
    /\ afterMerge' = FALSE
    /\ gone' = IF r.ret # "ok" THEN gone
               ELSE IF gone.ids # {} /\ gone.stage <= 1 THEN [gone EXCEPT !.stage = 1]
               ELSE Forgotten(gone)
    /\ UNCHANGED <<file, bak, locked, source, exp>>

Read == ReadStep(ReadCall(novel, tree, file, locked))

\* a call of write(), r being its outcome
WriteStep(r) ==
    /\ ret # "raised"
    /\ novel' = r.novel
    /\ tree' = r.tree
    /\ file' = r.file
    /\ bak' = r.bak
    /\ ret' = r.ret
    /\ op' = "write"
    /\ pre' = NoPre
    /\ rt' = IF r.ret = "ok" /\ op = "read" /\ ret = "ok"
             THEN [stage |-> 2, m1 |-> novel]
             ELSE NoRoundTrip
    /\ afterMerge' = (op = "merge" /\ ret = "ok")
    /\ gone' = IF r.ret # "ok" THEN gone
               ELSE IF gone.stage = 1 THEN [gone EXCEPT !.stage = 2]
               ELSE Forgotten(gone)
    /\ UNCHANGED <<locked, source, exp>>

Write == WriteStep(WriteCall(novel, tree, file, bak, locked, "none"))

\* a call of merge(source), r being its outcome
MergeStep(r) ==
    /\ ret # "raised"
    /\ r.ret # "over"
    /\ novel' = r.novel
    /\ tree' = r.tree
    /\ ret' = r.ret
    /\ op' = "merge"
    /\ pre' = r.pre
    /\ rt' = NoRoundTrip
    /\ afterMerge' = FALSE
    /\ gone' = Forgotten(gone)
    /\ UNCHANGED <<file, bak, locked, source, exp>>

Merge == MergeStep(MergeCall(novel, tree, file, locked, source))

\* a call of Splitter().split_scenes(novel) on the instance, r being its outcome
SplitStep(r) ==
    /\ ret # "raised"
    /\ r.ret # "over"
    /\ novel' = r.novel
    /\ ret' = r.ret
    /\ op' = "split"
    /\ pre' = r.pre
    /\ rt' = NoRoundTrip
    /\ afterMerge' = FALSE
    /\ gone' = Forgotten(gone)
    /\ UNCHANGED <<file, bak, locked, tree, source, exp>>

Split == SplitStep(SplitCall(novel))

\* a call of write() during which the disk may fail
WriteFault ==
    \E flt \in Faults : WriteStep(WriteCall(novel, tree, file, bak, locked, flt))

\* yWriter opens or closes the project: the '.lock' sibling appears or goes
Lock ==
    /\ ret # "raised"
    /\ locked' = ~locked
    /\ UNCHANGED <<file, bak, tree, novel, source, pre, op, ret, rt, afterMerge, exp, gone>>

Next == Read \/ Write \/ Merge \/ Split

Spec == Init /\ [][Next]_vars

\* the same calls on the files and the sources of the kind codec
SpecKinds == InitKinds /\ [][Next]_vars

InitIO == \E sc \in IOScenarios : Start(sc)

NextIO == Read \/ WriteFault \/ Merge \/ Split \/ Lock

\* the same calls on a disk that may fail, beside a yWriter that may open
\* and close the project
SpecIO == InitIO /\ [][NextIO]_vars


InitOrder == \E sc \in OrderScenarios : Start(sc)

\* the calls on projects and sources that differ in their scene orders
SpecOrder == InitOrder /\ [][Next]_vars

\* the sections of the project file that hold entities, by the name of the
\* map that read fills from them
Sections == {"locations", "items", "characters", "projectNotes", "scenes", "chapters"}

\* how many entities are removed from the file in all
MaxGone == 1

\* the ids of the entities of a section of the file
FileIds(root, section) ==
    IF section = "locations" THEN Range(SectionIds(root.LOCATIONS))
    ELSE IF section = "items" THEN Range(SectionIds(root.ITEMS))
    ELSE IF section = "characters" THEN Range(SectionIds(root.CHARACTERS))
    ELSE IF section = "projectNotes"
    THEN IF root.PROJECTNOTES = None THEN {} ELSE Range(SectionIds(Val(root.PROJECTNOTES)))
    ELSE IF section = "scenes" THEN DOMAIN root.SCENES
    ELSE Range(SectionIds(root.CHAPTERS))

\* a section without the elements that carry the id
WithoutId(section, id) == LET Other(e) == e.ID # id IN SelectSeq(section, Other)

\* a list of ids without the id
WithoutScID(scenes, id) ==
    IF scenes = None THEN None
    ELSE LET Other(x) == x # id IN Some(SelectSeq(Val(scenes), Other))

\* the file without an entity: the element is gone, and with a scene its ScID
\* entries in the chapters
FileWithout(root, section, id) ==
    IF section = "locations" THEN [root EXCEPT !.LOCATIONS = WithoutId(root.LOCATIONS, id)]
    ELSE IF section = "items" THEN [root EXCEPT !.ITEMS = WithoutId(root.ITEMS, id)]
    ELSE IF section = "characters"
    THEN [root EXCEPT !.CHARACTERS = WithoutId(root.CHARACTERS, id)]
    ELSE IF section = "projectNotes"
    THEN [root EXCEPT !.PROJECTNOTES = Some(WithoutId(Val(root.PROJECTNOTES), id))]
    ELSE IF section = "scenes"
    THEN [root EXCEPT
             !.SCENES = [k \in (DOMAIN root.SCENES) \ {id} |-> root.SCENES[k]],
             !.CHAPTERS = [i \in 1..Len(root.CHAPTERS) |->
                              [root.CHAPTERS[i] EXCEPT
                                  !.Scenes = WithoutScID(root.CHAPTERS[i].Scenes, id)]]]
    ELSE [root EXCEPT !.CHAPTERS = WithoutId(root.CHAPTERS, id)]

\* another program removes from the project file, which the instance has
\* read, the entity e of a section
Removed(e) ==
    /\ file' = Some([Val(file) EXCEPT !.root = FileWithout(Val(file).root, e[1], e[2])])
    /\ gone' = [ids |-> (IF op = "remove" THEN gone.ids ELSE {}) \cup {e}, stage |-> 0,
                removals |-> gone.removals + 1]
    /\ op' = "remove"
    /\ pre' = NoPre
    /\ rt' = NoRoundTrip
    /\ afterMerge' = FALSE
    /\ UNCHANGED <<bak, locked, tree, novel, source, ret, exp>>

\* the entity with the greatest id of a section is removed from the file
\* after a read, or after another removal
Remove ==
    /\ ret = "ok"
    /\ op \in {"read", "remove"}
    /\ file # None
    /\ gone.removals < MaxGone
    /\ \E section \in Sections :
           /\ FileIds(Val(file).root, section) # {}
           /\ Removed(<< section, str(IdMax(FileIds(Val(file).root, section))) >>)

InitReread == \E sc \in RereadScenarios : Start(sc)

NextReread == Read \/ Write \/ Merge \/ Split \/ Remove

\* the calls on a project file that loses entities between them
SpecReread == InitReread /\ [][NextReread]_vars

----------------------------------------------------------------------------
(* The export: a FileExport instance as the target beside the Yw7File *)

\* FileExport(filePath) with the configuration cfg, and the target file out
StartExport(sc) ==
    /\ file = sc.file
    /\ source = Novel
    /\ locked = sc.locked
    /\ bak = None
    /\ tree = None
    /\ novel = Novel
    /\ pre = NoPre
    /\ op = "init"
    /\ ret = "ok"
    /\ rt = NoRoundTrip
    /\ afterMerge = FALSE
    /\ exp = [target |-> Novel, cfg |-> sc.cfg, file |-> sc.out, bak |-> None,
              newFile |-> None, steps |-> << >>]
    /\ gone = NoGone

InitExport == \E sc \in ExportScenarios : StartExport(sc)

\* the end of a call o that leaves c
ExportEnd(o, c) ==
    /\ ret # "raised"
    /\ novel' = c.novel
    /\ tree' = c.tree
    /\ ret' = c.ret
    /\ op' = o
    /\ exp' = [exp EXCEPT !.target = c.target, !.file = c.file, !.bak = c.bak,
                          !.newFile = c.newFile, !.steps = c.steps]
    /\ pre' = NoPre
    /\ rt' = NoRoundTrip
    /\ afterMerge' = FALSE
    /\ UNCHANGED <<file, bak, locked, source, gone>>

\* a call of target.merge(source), the source being the Yw7File instance
TargetMerge ==
    ExportEnd("target.merge",
              [ret |-> "ok", steps |-> << >>, novel |-> novel, tree |-> tree,
               target |-> FileExport_merge(exp.target, novel),
               file |-> exp.file, bak |-> exp.bak, newFile |-> exp.newFile])

\* target.write() as a call leaves it
TargetWritten(w) ==
    [ret |-> w.ret, steps |-> << >>, novel |-> novel, tree |-> tree, target |-> exp.target,
     file |-> w.file, bak |-> w.bak, newFile |-> exp.newFile]

\* a call of target.write(), during which the disk may fail
TargetWrite ==
    \E flt \in Faults \ {"post"} :
        ExportEnd("target.write",
                  TargetWritten(FileExport_write(exp.target, exp.cfg, exp.file, exp.bak, flt)))

\* a call of YwCnv.convert(source, target) with the two instances, or with
\* instances whose filePath is None
Convert ==
    \E sourcePath \in BOOLEAN, targetPath \in BOOLEAN, confirm \in BOOLEAN,
       flt \in Faults \ {"post"} :
        ExportEnd("convert",
                  [newFile |-> exp.newFile]
                  @@ convert(sourcePath, targetPath, confirm, novel, tree,
                             ReadCall(novel, tree, file, locked), file,
                             exp.target, exp.cfg, exp.file, exp.bak, flt))

\* YwCnvUi.export_from_yw after convert, c being what convert leaves
export_from_yw_end(c, newFile) ==
    [newFile |-> IF c.ret = "error" THEN None
                 ELSE IF c.ret = "ok" THEN Some("target.filePath")
                 ELSE newFile]
    @@ c

\* YwCnvUi.export_from_yw(source, target): set_info_what raises a TypeError
\* for a filePath that is None
export_from_yw(sourcePath, targetPath, n, t, tgt, f, b, newFile, c) ==
    IF ~sourcePath \/ ~targetPath
    THEN [newFile |-> newFile] @@ ConvertEnd("raised", 0, n, t, tgt, f, b)
    ELSE export_from_yw_end(c, newFile)

\* a call of export_from_yw(source, target)
ExportFromYw ==
    \E sourcePath \in BOOLEAN, targetPath \in BOOLEAN, confirm \in BOOLEAN,
       flt \in Faults \ {"post"} :
        ExportEnd("export_from_yw",
                  export_from_yw(sourcePath, targetPath, novel, tree, exp.target,
                                 exp.file, exp.bak, exp.newFile,
                                 convert(sourcePath, targetPath, confirm, novel, tree,
                                         ReadCall(novel, tree, file, locked), file,
                                         exp.target, exp.cfg, exp.file, exp.bak, flt)))

NextExport == Read \/ TargetMerge \/ TargetWrite \/ Convert \/ ExportFromYw

\* a yWriter project exported with FileExport: the calls one by one, and the
\* converter that makes them
SpecExport == InitExport /\ [][NextExport]_vars

----------------------------------------------------------------------------
(* Properties *)

Blank(t) == ~Truthy(t)

\* the value the merged field has when it falls back: the target's, or the
\* default None of an entity the target did not hold
Fallback(srcValue, tgtDict, id, field) ==
    IF srcValue # None THEN srcValue
    ELSE IF id \in DOMAIN tgtDict THEN tgtDict[id][field] ELSE None

\* C1. Round trip: the model that read gives after a write of the model that
\* read gave equals, in every field, the model of that first read.
C1_RoundTrip == rt.stage = 3 => novel = rt.m1

\* every scene listed in a chapter that is not Normal has the chapter's kind
Dominance(n) ==
    \A ch \in Range(n.srtChapters) \cap DOMAIN n.chapters :
        n.chapters[ch].chType # Some(0) =>
            \A sc \in Range(n.chapters[ch].srtScenes) \cap DOMAIN n.scenes :
                n.scenes[sc].scType = n.chapters[ch].chType

\* C2. Chapter dominance: when read or merge has returned successfully, every
\* scene listed in the scene order of a chapter whose kind is not Normal has
\* the kind of that chapter.
C2_ChapterDominance == (op \in {"read", "merge"} /\ ret = "ok") => Dominance(novel)

\* the kinds decoded from the written file are the kinds of the model
KindsReadBack(root, n) ==
    /\ \A ch \in Range(n.srtChapters) :
           Some(read_chType(ById(root.CHAPTERS, ch))) = n.chapters[ch].chType
    /\ \A sc \in DOMAIN n.scenes :
           Some(read_scType(root.SCENES[sc])) = n.scenes[sc].scType

\* C3. Type codec round trip: the kind of every chapter and of every scene
\* that write encoded (Unused, Type, ChapterType; Unused, Field_SceneType),
\* on a new element or on one that encoded another kind, is the kind that
\* decoding the written signals gives.
C3_TypeCodec == (op = "write" /\ ret = "ok") => KindsReadBack(Val(file).root, novel)

\* a write on the elements of a file whose chapter 1 was Unused and is Notes
\* now, and whose scene 1 has taken that kind
C3_Witness ==
    /\ op = "write" /\ ret = "ok" /\ bak # None
    /\ "1" \in Range(SectionIds(Val(bak).root.CHAPTERS))
    /\ "1" \in DOMAIN Val(bak).root.SCENES
    /\ "1" \in DOMAIN novel.chapters /\ "1" \in DOMAIN novel.scenes
    /\ read_chType(ById(Val(bak).root.CHAPTERS, "1")) = 3
    /\ novel.chapters["1"].chType = Some(1)
    /\ read_scType(Val(bak).root.SCENES["1"]) = 0
    /\ novel.scenes["1"].scType = Some(1)

\* the title is kept where the source's is blank and the target's was not
TitleKept(srcDict, tgtDict, newDict, ids) ==
    \A id \in ids \cap DOMAIN srcDict \cap DOMAIN tgtDict :
        (Blank(srcDict[id].title) /\ ~Blank(tgtDict[id].title)) =>
            (id \in DOMAIN newDict /\ newDict[id].title = tgtDict[id].title)

\* C4. Merge title non-destructiveness: after a merge whose source has a blank
\* title for the project, or for a chapter, scene, location, item or
\* character the target held with a title that is not blank, the target has
\* the title it had before the merge.
C4_MergeTitle ==
    (op = "merge" /\ ret = "ok") =>
        /\ (Blank(source.title) /\ ~Blank(pre.target.title)) => novel.title = pre.target.title
        /\ TitleKept(source.chapters, pre.target.chapters, novel.chapters, Ids)
        /\ TitleKept(source.scenes, pre.target.scenes, novel.scenes, Ids)
        /\ TitleKept(source.locations, pre.target.locations, novel.locations,
                     Range(source.srtLocations))
        /\ TitleKept(source.items, pre.target.items, novel.items, Range(source.srtItems))
        /\ TitleKept(source.characters, pre.target.characters, novel.characters,
                     Range(source.srtCharacters))

\* a merge of blank titles onto a project, chapter, scene, location, item and
\* character that had titles
C4_Witness ==
    /\ op = "merge" /\ ret = "ok"
    /\ Blank(source.title) /\ ~Blank(pre.target.title)
    /\ \A d \in {"chapters", "scenes", "locations", "items", "characters"} :
           /\ "1" \in DOMAIN source[d] \cap DOMAIN pre.target[d]
           /\ Blank(source[d]["1"].title)
           /\ ~Blank(pre.target[d]["1"].title)

\* each field is the source's if present, the target's before the merge if not
FieldsFallBack(srt, srcDict, tgtDict, newDict, fields) ==
    \A id \in Range(srt) :
        /\ id \in DOMAIN newDict
        /\ \A f \in fields : newDict[id][f] = Fallback(srcDict[id][f], tgtDict, id, f)

\* C5. Merge field fallback: after merge, for every location, item and
\* character id of the source's order list, each field (image, desc, aka,
\* tags; for characters also notes, bio, goals, fullName, isMajor) is the
\* source's value when present and the target's value before the merge
\* otherwise.
C5_MergeFallback ==
    (op = "merge" /\ ret = "ok") =>
        /\ FieldsFallBack(source.srtLocations, source.locations, pre.target.locations,
                          novel.locations, {"image", "desc", "aka", "tags"})
        /\ FieldsFallBack(source.srtItems, source.items, pre.target.items,
                          novel.items, {"image", "desc", "aka", "tags"})
        /\ FieldsFallBack(source.srtCharacters, source.characters, pre.target.characters,
                          novel.characters,
                          {"image", "desc", "aka", "tags", "notes", "bio", "goals",
                           "fullName", "isMajor"})

\* no line of any scene's content starts with '#'
Clean(n) ==
    \A sc \in DOMAIN n.scenes :
        n.scenes[sc].sceneContent # None =>
            \A i \in 1..Len(split(Val(n.scenes[sc].sceneContent), "\n")) :
                ~startswith(split(Val(n.scenes[sc].sceneContent), "\n")[i], << "#" >>)

\* the structure and the scene texts of two novels are the same
SameStructure(a, b) ==
    /\ a.srtChapters = b.srtChapters
    /\ DOMAIN a.chapters = DOMAIN b.chapters
    /\ DOMAIN a.scenes = DOMAIN b.scenes
    /\ \A ch \in DOMAIN a.chapters : a.chapters[ch].srtScenes = b.chapters[ch].srtScenes
    /\ \A sc \in DOMAIN a.scenes :
           \A f \in {"sceneContent", "title", "desc", "goal", "conflict", "outcome", "status"} :
               a.scenes[sc][f] = b.scenes[sc][f]

\* C6. Splitter on clean input: when no line of any scene's content starts
\* with '#', split_scenes returns False and the chapter order, the scene
\* order of every chapter, the chapter and scene ids and every scene's content,
\* title, desc, goal, conflict, outcome and status are as before the call.
C6_SplitClean ==
    (pre.ran /\ ret = "ok" /\ Clean(pre.split)) =>
        (~pre.returned /\ SameStructure(pre.split, novel))

\* split_scenes ran on a novel without markers whose scene 1, listed in a
\* chapter, has two lines of content
C6_Witness ==
    /\ op = "split" /\ ret = "ok" /\ Clean(pre.split)
    /\ "1" \in DOMAIN pre.split.scenes
    /\ pre.split.scenes["1"].sceneContent = Some(<< "a", "\n", " ", "#", "b" >>)
    /\ \E ch \in Range(pre.split.srtChapters) : InList("1", pre.split.chapters[ch].srtScenes)

\* the call created a scene, a chapter or a part
Created(before, after) ==
    \/ DOMAIN after.scenes # DOMAIN before.scenes
    \/ Len(after.srtChapters) > Len(before.srtChapters)

\* C7. Splitter return value: split_scenes returns True exactly when the call
\* created at least one new scene, chapter or part.
C7_SplitReturn ==
    (pre.ran /\ ret = "ok") => (pre.returned <=> Created(pre.split, novel))


\* the lines of a scene's content
Lines(n, sc) == split(Val(n.scenes[sc].sceneContent), "\n")

IsMarker(line) == startswith(line, << "#" >>)

\* the position of the first line that starts with '#'
FirstMarker(lines) ==
    CHOOSE k \in 1..Len(lines) : IsMarker(lines[k]) /\ \A j \in 1..(k - 1) : ~IsMarker(lines[j])

\* the position of the next line after k that starts with '#', or the end
NextMarker(lines, k) ==
    IF \E m \in (k + 1)..Len(lines) : IsMarker(lines[m])
    THEN CHOOSE m \in (k + 1)..Len(lines) :
             IsMarker(lines[m]) /\ \A j \in (k + 1)..(m - 1) : ~IsMarker(lines[j])
    ELSE Len(lines) + 1

Bar(line) == CHOOSE b \in 1..Len(line) : line[b] = "|" /\ \A j \in 1..(b - 1) : line[j] # "|"

MarkerTitle(line) == SubSeq(line, 4, Bar(line) - 1)

MarkerDesc(line) == SubSeq(line, Bar(line) + 1, Len(line))

\* a line '###T|D' with a title T and a description D
SceneMarker(line) ==
    /\ startswith(line, << "#", "#", "#" >>) /\ Contains(line, "|")
    /\ MarkerTitle(line) # << >> /\ MarkerTitle(line)[1] \notin {"#", " "}
    /\ MarkerDesc(line) # << >> /\ ~Contains(MarkerDesc(line), "|")
    /\ MarkerDesc(line)[Len(MarkerDesc(line))] \notin {"#", " "}

\* the scenes listed in a chapter whose first marker line is a line '###T|D'
MarkedScenes(n) ==
    {sc \in DOMAIN n.scenes :
        /\ \E ch \in Range(n.srtChapters) : InList(sc, n.chapters[ch].srtScenes)
        /\ Truthy(n.scenes[sc].sceneContent)
        /\ \E k \in 1..Len(Lines(n, sc)) : IsMarker(Lines(n, sc)[k])
        /\ SceneMarker(Lines(n, sc)[FirstMarker(Lines(n, sc))])}

\* S holds the lines before the marker, and a new scene with the marker's
\* title and description and the lines after it stands directly after S
SplitAt(before, after, sc, lines, k) ==
    /\ after.scenes[sc].sceneContent = Some(join(SubSeq(lines, 1, k - 1), "\n"))
    /\ \E ch \in DOMAIN after.chapters :
           \E j \in 1..(Len(after.chapters[ch].srtScenes) - 1) :
               /\ after.chapters[ch].srtScenes[j] = sc
               /\ after.chapters[ch].srtScenes[j + 1] \notin DOMAIN before.scenes
               /\ after.chapters[ch].srtScenes[j + 1] \in DOMAIN after.scenes
               /\ after.scenes[after.chapters[ch].srtScenes[j + 1]].title =
                      Some(MarkerTitle(lines[k]))
               /\ after.scenes[after.chapters[ch].srtScenes[j + 1]].desc =
                      Some(MarkerDesc(lines[k]))
               /\ after.scenes[after.chapters[ch].srtScenes[j + 1]].sceneContent =
                      Some(join(SubSeq(lines, k + 1, NextMarker(lines, k) - 1), "\n"))

NoDanglingReference(root) ==
    \A sc \in DOMAIN root.SCENES :
        /\ root.SCENES[sc].Characters # None =>
               Range(Val(root.SCENES[sc].Characters)) \subseteq Range(SectionIds(root.CHARACTERS))
        /\ root.SCENES[sc].Locations # None =>
               Range(Val(root.SCENES[sc].Locations)) \subseteq Range(SectionIds(root.LOCATIONS))
        /\ root.SCENES[sc].Items # None =>
               Range(Val(root.SCENES[sc].Items)) \subseteq Range(SectionIds(root.ITEMS))

\* C9. No dangling reference is serialized: in the file that a write after a
\* successful merge has written, every character, location and item id of a
\* scene's list is the id of an entity of the CHARACTERS, LOCATIONS or ITEMS
\* section of that file, also for the scenes the source did not hold.
C9_NoDangling ==
    (op = "write" /\ ret = "ok" /\ afterMerge) => NoDanglingReference(Val(file).root)

\* every id of an order list is a key of its map
OrderListsExist(n) ==
    /\ Range(n.srtChapters) \subseteq DOMAIN n.chapters
    /\ \A ch \in DOMAIN n.chapters : Range(n.chapters[ch].srtScenes) \subseteq DOMAIN n.scenes
    /\ Range(n.srtLocations) \subseteq DOMAIN n.locations
    /\ Range(n.srtItems) \subseteq DOMAIN n.items
    /\ Range(n.srtCharacters) \subseteq DOMAIN n.characters

\* C10. Order lists reference existing entities: after a read, after a merge
\* of a source that has the property, and after split_scenes, every id of
\* the chapter order, of every chapter's scene order and of the location, item
\* and character order is a key of the corresponding map.
C10_OrderLists ==
    (ret = "ok" /\ (op \in {"read", "split"} \/ (op = "merge" /\ OrderListsExist(source)))) =>
        OrderListsExist(novel)

\* a merge that inserted a chapter and scenes the target did not hold, and
\* whose split made a scene
C10_Witness ==
    /\ op = "merge" /\ ret = "ok" /\ OrderListsExist(source)
    /\ \E ch \in Range(novel.srtChapters) : ch \notin DOMAIN pre.target.chapters
    /\ \E ch \in DOMAIN novel.chapters :
           \E sc \in Range(novel.chapters[ch].srtScenes) : sc \notin DOMAIN pre.target.scenes


\* the counts of a scene are those of its content, 0 without content
CountsDerived(scn) ==
    IF scn.sceneContent = None THEN scn.wordCount = 0 /\ scn.letterCount = 0
    ELSE /\ scn.wordCount = wordCount(Val(scn.sceneContent))
         /\ scn.letterCount = letterCount(Val(scn.sceneContent))

\* C20. Derived counts: when read, merge or split_scenes has returned, every
\* scene with a content has the word count and the letter count of that
\* content, and every scene without content has both counts 0.
C20_DerivedCounts ==
    (ret = "ok" /\ op \in {"read", "merge", "split"}) =>
        \A sc \in DOMAIN novel.scenes : CountsDerived(novel.scenes[sc])

\* a split that left a scene with fewer words than it had
C20_Witness ==
    /\ op = "split" /\ ret = "ok" /\ pre.returned
    /\ \E sc \in DOMAIN pre.split.scenes :
           /\ novel.scenes[sc].wordCount > 0
           /\ novel.scenes[sc].wordCount < pre.split.scenes[sc].wordCount


\* C17. Write backup and restore: when write finds a file at the path and
\* returns its error message after a later step of the write failed, the
\* original content is back at the path.
C17_WriteRestore ==
    [][(~locked /\ file # None /\ WriteFault /\ ret' = "error") => file' = file]_vars

\* C18. Lock refusal: with the '.lock' sibling present, read, write and merge
\* (with a project file) return an error message and leave the instance
\* variables, the tree, the project file and the '.bak' sibling as they were.
C18_LockRefusal ==
    [][(locked /\ (Read \/ WriteFault \/ (file # None /\ Merge)))
           => (ret' = "error" /\ UNCHANGED <<novel, tree, file, bak>>)]_vars

\* a call refused under the lock, on an instance that holds scenes, with a
\* project file and a '.bak' sibling on disk
C18_Witness ==
    /\ locked /\ ret = "error" /\ op \in {"read", "write", "merge"}
    /\ file # None /\ bak # None /\ tree # None
    /\ novel.scenes # EmptyDict


----------------------------------------------------------------------------
(* The text a FileExport wrote *)

\* the last call wrote the text of the target file from the target
Exported ==
    /\ op \in {"target.write", "convert", "export_from_yw"}
    /\ ret = "ok"
    /\ exp.file # None

HeadingTemplates ==
    {"_partTemplate", "_chapterTemplate", "_notesPartTemplate", "_todoPartTemplate",
     "_notesChapterTemplate", "_todoChapterTemplate", "_unusedChapterTemplate",
     "_notExportedChapterTemplate"}

EndTemplates ==
    {"_chapterEndTemplate", "_unusedChapterEndTemplate", "_notExportedChapterEndTemplate",
     "_notesChapterEndTemplate", "_todoChapterEndTemplate"}

SceneTemplates ==
    {"_sceneTemplate", "_firstSceneTemplate", "_appendedSceneTemplate", "_notesSceneTemplate",
     "_todoSceneTemplate", "_unusedSceneTemplate", "_notExportedSceneTemplate"}

\* the place of x in the list lst
PosIn(lst, x) == CHOOSE i \in 1..Len(lst) : lst[i] = x

\* the place in the chapter order of the chapter that lists the scene
ChapterOf(n, scId) ==
    CHOOSE k \in 1..Len(n.srtChapters) : scId \in Range(n.chapters[n.srtChapters[k]].srtScenes)

\* where the rendering order puts a piece of the text: the section, then the
\* place of the entity in its order list, then the place of the scene in the
\* scene order of its chapter (0 for the heading, past the scenes for the
\* chapter ending)
PlaceOf(n, p) ==
    IF p.tpl = "_fileHeader" THEN << 1, 0, 0 >>
    ELSE IF p.tpl \in HeadingTemplates THEN << 2, PosIn(n.srtChapters, p.id), 0 >>
    ELSE IF p.tpl \in SceneTemplates
    THEN << 2, ChapterOf(n, p.id),
            PosIn(n.chapters[n.srtChapters[ChapterOf(n, p.id)]].srtScenes, p.id) >>
    ELSE IF p.tpl \in EndTemplates
    THEN << 2, PosIn(n.srtChapters, p.id), Len(n.chapters[p.id].srtScenes) + 1 >>
    ELSE IF p.tpl = "_characterSectionHeading" THEN << 3, 0, 0 >>
    ELSE IF p.tpl = "_characterTemplate" THEN << 3, PosIn(n.srtCharacters, p.id), 0 >>
    ELSE IF p.tpl = "_locationSectionHeading" THEN << 4, 0, 0 >>
    ELSE IF p.tpl = "_locationTemplate" THEN << 4, PosIn(n.srtLocations, p.id), 0 >>
    ELSE IF p.tpl = "_itemSectionHeading" THEN << 5, 0, 0 >>
    ELSE IF p.tpl = "_itemTemplate" THEN << 5, PosIn(n.srtItems, p.id), 0 >>
    ELSE IF p.tpl = "_projectNoteTemplate" THEN << 6, PosIn(n.srtPrjNotes, p.id), 0 >>
    ELSE << 7, 0, 0 >>

Before(a, b) ==
    \/ a[1] < b[1]
    \/ a[1] = b[1] /\ a[2] < b[2]
    \/ a[1] = b[1] /\ a[2] = b[2] /\ a[3] < b[3]

\* the pieces of the text but the dividers follow the rendering order
InRenderingOrder(n, text) ==
    \A i \in 1..Len(text) : \A j \in (i + 1)..Len(text) :
        (text[i].tpl # "_sceneDivider" /\ text[j].tpl # "_sceneDivider")
            => Before(PlaceOf(n, text[i]), PlaceOf(n, text[j]))

\* the entities of an order list that the filter accepts are each in the text
EachRendered(tpl, srt, rejected, text) ==
    \A k \in 1..Len(srt) :
        accept(rejected, srt[k]) => \E i \in 1..Len(text) : text[i].tpl = tpl /\ text[i].id = srt[k]

\* every accepted chapter has its ending in the text, when the template of
\* the ending is not empty
EachChapterEnded(n, cfg, text) ==
    \A k \in 1..Len(n.srtChapters) :
        (/\ accept(cfg.reject.chapters, n.srtChapters[k])
         /\ cfg.templates \cap EndTemplates = EndTemplates)
            => \E i \in 1..Len(text) :
                   text[i].tpl \in EndTemplates /\ text[i].id = n.srtChapters[k]

\* C11. Rendering order: the text is the file header, each accepted chapter in
\* chapter order with its scenes in its scene order and then its chapter
\* ending, the characters, the locations, the items and the project notes in
\* the order of their lists, and last the file footer.
C11_RenderingOrder ==
    Exported =>
        /\ InRenderingOrder(exp.target, Val(exp.file))
        /\ EachChapterEnded(exp.target, exp.cfg, Val(exp.file))
        /\ "_characterTemplate" \in exp.cfg.templates
               => EachRendered("_characterTemplate", exp.target.srtCharacters,
                               exp.cfg.reject.characters, Val(exp.file))
        /\ "_locationTemplate" \in exp.cfg.templates
               => EachRendered("_locationTemplate", exp.target.srtLocations, {}, Val(exp.file))
        /\ "_itemTemplate" \in exp.cfg.templates
               => EachRendered("_itemTemplate", exp.target.srtItems, {}, Val(exp.file))
        /\ "_projectNoteTemplate" \in exp.cfg.templates
               => EachRendered("_projectNoteTemplate", exp.target.srtPrjNotes, {},
                               Val(exp.file))
        /\ "_fileHeader" \in exp.cfg.templates => Val(exp.file)[1].tpl = "_fileHeader"
        /\ "_fileFooter" \in exp.cfg.templates
               => Val(exp.file)[Len(Val(exp.file))].tpl = "_fileFooter"

\* a text with the scenes of two chapters, two characters and a project note
C11_Witness ==
    /\ Exported
    /\ \E i, j \in 1..Len(Val(exp.file)) :
           /\ Val(exp.file)[i].tpl \in SceneTemplates
           /\ Val(exp.file)[j].tpl \in SceneTemplates
           /\ ChapterOf(exp.target, Val(exp.file)[i].id)
                  # ChapterOf(exp.target, Val(exp.file)[j].id)
    /\ \E i \in 1..Len(Val(exp.file)) : Val(exp.file)[i].tpl = "_projectNoteTemplate"
    /\ Cardinality({i \in 1..Len(Val(exp.file)) : Val(exp.file)[i].tpl = "_characterTemplate"}) = 2


\* a non-empty chapter whose every scene has doNotExport set
WholeChapterNotExported(n, chp) ==
    /\ chp.srtScenes # << >>
    /\ \A scId \in Range(chp.srtScenes) : n.scenes[scId].doNotExport = Some(TRUE)

\* the heading templates the precedence allows for a chapter
AllowedHeadings(n, chp) ==
    IF chp.chType = Some(2) THEN {"_todoPartTemplate", "_todoChapterTemplate"}
    ELSE IF chp.chType = Some(1)
    THEN IF chp.chLevel = Some(1) THEN {"_notesPartTemplate"} ELSE {"_notesChapterTemplate"}
    ELSE IF chp.chType = Some(3) THEN {"_unusedChapterTemplate"}
    ELSE IF WholeChapterNotExported(n, chp) THEN {"_notExportedChapterTemplate"}
    ELSE IF chp.chLevel = Some(1) THEN {"_partTemplate"}
    ELSE {"_chapterTemplate"}

\* the chapter-end template the same precedence of kinds allows
AllowedEnding(n, chp) ==
    IF chp.chType = Some(2) THEN "_todoChapterEndTemplate"
    ELSE IF chp.chType = Some(1) THEN "_notesChapterEndTemplate"
    ELSE IF chp.chType = Some(3) THEN "_unusedChapterEndTemplate"
    ELSE IF WholeChapterNotExported(n, chp) THEN "_notExportedChapterEndTemplate"
    ELSE "_chapterEndTemplate"

\* C12. Chapter template precedence: the heading of every chapter in the text
\* is made with the template of the first rule that matches the chapter (Todo,
\* Notes by level, Unused, wholly not exported, Part-level Normal, plain), and
\* its chapter ending with the end template of the same precedence of kinds.
C12_ChapterPrecedence ==
    Exported =>
        \A i \in 1..Len(Val(exp.file)) :
            /\ Val(exp.file)[i].tpl \in HeadingTemplates
                   => Val(exp.file)[i].tpl
                          \in AllowedHeadings(exp.target, exp.target.chapters[Val(exp.file)[i].id])
            /\ Val(exp.file)[i].tpl \in EndTemplates
                   => Val(exp.file)[i].tpl
                          = AllowedEnding(exp.target, exp.target.chapters[Val(exp.file)[i].id])


\* the scene templates the precedence allows for a scene of a chapter: the
\* template of its classification, and for a Normal scene the first-scene and
\* the appended-scene templates that refine it
AllowedSceneTemplates(n, scn, chp) ==
    IF scn.scType = Some(2) THEN {"_todoSceneTemplate"}
    ELSE IF scn.scType = Some(1) THEN {"_notesSceneTemplate"}
    ELSE IF scn.scType = Some(3) \/ chp.chType = Some(3) THEN {"_unusedSceneTemplate"}
    ELSE IF scn.doNotExport = Some(TRUE) \/ WholeChapterNotExported(n, chp)
    THEN {"_notExportedSceneTemplate"}
    ELSE {"_sceneTemplate", "_firstSceneTemplate", "_appendedSceneTemplate"}

\* C13. Scene template precedence: every scene in the text is made with the
\* template of its first matching classification (Todo, Notes, Unused,
\* NotExported, Normal); the first-scene and the appended-scene templates are
\* used for Normal scenes only.
C13_ScenePrecedence ==
    Exported =>
        \A i \in 1..Len(Val(exp.file)) :
            Val(exp.file)[i].tpl \in SceneTemplates
                => Val(exp.file)[i].tpl
                       \in AllowedSceneTemplates(
                               exp.target, exp.target.scenes[Val(exp.file)[i].id],
                               exp.target.chapters[exp.target.srtChapters[
                                   ChapterOf(exp.target, Val(exp.file)[i].id)]])


\* the scenes in rendering order: the accepted scenes of the accepted
\* chapters, from chapter k on
RECURSIVE SceneOrder(_, _, _)
SceneOrder(n, cfg, k) ==
    IF k > Len(n.srtChapters) THEN << >>
    ELSE LET Accepted(scId) == scId \notin cfg.reject.scenes
         IN  (IF n.srtChapters[k] \in cfg.reject.chapters THEN << >>
              ELSE SelectSeq(n.chapters[n.srtChapters[k]].srtScenes, Accepted))
             \o SceneOrder(n, cfg, k + 1)

\* a scene rendered as a Normal scene: of no other classification, and no raw
\* HTML or TeX
IsNormalScene(n, scId) ==
    /\ "_sceneTemplate"
           \in AllowedSceneTemplates(n, n.scenes[scId],
                                     n.chapters[n.srtChapters[ChapterOf(n, scId)]])
    /\ \/ n.scenes[scId].sceneContent = None
       \/ /\ ~startswith(Val(n.scenes[scId].sceneContent), << "<", "H", "T", "M", "L", ">" >>)
          /\ ~startswith(Val(n.scenes[scId].sceneContent), << "<", "T", "E", "X", ">" >>)

\* the Normal scenes among the first k scenes of the rendering order
NormalUpTo(n, order, k) == {i \in 1..k : IsNormalScene(n, order[i])}

\* the sum of the word counts (letter counts) of the scenes of order at the
\* places in the set
RECURSIVE WordsOf(_, _, _)
WordsOf(n, order, places) ==
    IF places = {} THEN 0
    ELSE LET i == CHOOSE x \in places : TRUE
         IN  n.scenes[order[i]].wordCount + WordsOf(n, order, places \ {i})

RECURSIVE LettersOf(_, _, _)
LettersOf(n, order, places) ==
    IF places = {} THEN 0
    ELSE LET i == CHOOSE x \in places : TRUE
         IN  n.scenes[order[i]].letterCount + LettersOf(n, order, places \ {i})

\* the scene of a Todo chapter is in the text without number, with the totals
\* of the Normal scenes before it
TodoSceneUncounted(n, order, p) ==
    /\ p.tpl \notin {"_sceneTemplate", "_firstSceneTemplate", "_appendedSceneTemplate"}
    /\ p.num = 0
    /\ p.words = WordsOf(n, order, NormalUpTo(n, order, PosIn(order, p.id) - 1))
    /\ p.letters = LettersOf(n, order, NormalUpTo(n, order, PosIn(order, p.id) - 1))

\* C14. Todo chapter rendering: a chapter of kind Todo is never rendered with
\* the plain chapter template, a scene of its scene order never with the
\* normal, first-scene or appended scene template, and such a scene adds
\* nothing to the scene number or to the word and letter totals.
C14_TodoChapter ==
    Exported =>
        \A i \in 1..Len(Val(exp.file)) :
            /\ (/\ Val(exp.file)[i].tpl \in HeadingTemplates
                /\ exp.target.chapters[Val(exp.file)[i].id].chType = Some(2))
                   => Val(exp.file)[i].tpl # "_chapterTemplate"
            /\ (/\ Val(exp.file)[i].tpl \in SceneTemplates
                /\ exp.target.chapters[exp.target.srtChapters[
                       ChapterOf(exp.target, Val(exp.file)[i].id)]].chType = Some(2))
                   => TodoSceneUncounted(exp.target, SceneOrder(exp.target, exp.cfg, 1),
                                         Val(exp.file)[i])


\* the piece at place i of the text is a scene, and a scene of the same
\* chapter is in the text before it
NotFirstRendered(n, text, i) ==
    /\ text[i].tpl \in SceneTemplates
    /\ \E j \in 1..(i - 1) :
           /\ text[j].tpl \in SceneTemplates
           /\ ChapterOf(n, text[j].id) = ChapterOf(n, text[i].id)

\* the piece at place i of the text is a scene that takes a divider
TakesDivider(n, text, i) ==
    /\ NotFirstRendered(n, text, i)
    /\ n.scenes[text[i].id].appendToPrev # Some(TRUE)

\* the text has nothing of the rejected scenes and chapters
RejectedOmitted(n, cfg, text) ==
    \A i \in 1..Len(text) :
        /\ text[i].tpl \in SceneTemplates
               => /\ text[i].id \notin cfg.reject.scenes
                  /\ n.srtChapters[ChapterOf(n, text[i].id)] \notin cfg.reject.chapters
        /\ text[i].tpl \in HeadingTemplates \cup EndTemplates
               => text[i].id \notin cfg.reject.chapters

\* C15. Scene divider placement: the divider is in the text once, right before
\* each rendered scene that is neither the first scene rendered in its chapter
\* nor appended to the previous one, and nowhere else; a scene that is rejected
\* or skipped for its empty template has no output and no divider and is not
\* the first rendered scene of its chapter; a rejected chapter has no output
\* for itself or its scenes.
C15_DividerPlacement ==
    Exported =>
        /\ \A i \in 1..Len(Val(exp.file)) :
               /\ Val(exp.file)[i].tpl = "_sceneDivider"
                      => /\ i < Len(Val(exp.file))
                         /\ TakesDivider(exp.target, Val(exp.file), i + 1)
               /\ (TakesDivider(exp.target, Val(exp.file), i)
                       /\ "_sceneDivider" \in exp.cfg.templates)
                      => Val(exp.file)[i - 1].tpl = "_sceneDivider"
        /\ RejectedOmitted(exp.target, exp.cfg, Val(exp.file))


\* the ids of the pieces of a text
PieceIds(text) == [i \in 1..Len(text) |-> text[i].id]

\* the places among the first k of the text that hold a Normal scene
NormalPieces(n, text, k) ==
    {j \in 1..k : text[j].tpl \in SceneTemplates /\ IsNormalScene(n, text[j].id)}

\* the number and the totals in the scene at place i of the text are those
\* of the Normal scenes the text has rendered so far
TotalsOfRendered(n, text, i) ==
    /\ text[i].num = IF IsNormalScene(n, text[i].id)
                     THEN Cardinality(NormalPieces(n, text, i)) ELSE 0
    /\ text[i].words = WordsOf(n, PieceIds(text), NormalPieces(n, text, i))
    /\ text[i].letters = LettersOf(n, PieceIds(text), NormalPieces(n, text, i))

\* C16. Running totals: the k-th Normal scene in the text has the scene number
\* k and, as totals, the sums of the word counts and of the letter counts of
\* the first k Normal scenes in the text; a scene in the text of another
\* classification has no scene number and the totals of the Normal scenes
\* before it; the scenes that are skipped leave number and totals unchanged.
C16_RunningTotals ==
    Exported =>
        \A i \in 1..Len(Val(exp.file)) :
            Val(exp.file)[i].tpl \in SceneTemplates
                => TotalsOfRendered(exp.target, Val(exp.file), i)


\* s is the list of the first steps of convert, in their order
StepsInOrder(s) == Len(s) <= Len(ConvertSteps) /\ s = SubSeq(ConvertSteps, 1, Len(s))

\* C19. Conversion pipeline ordering: convert goes through check source, check
\* target, confirm overwrite, source.read, target.merge and target.write in
\* this order; target.merge follows a source.read without error and
\* target.write follows target.merge; on the first error convert returns an
\* error message, makes no later step and leaves the target file untouched (a
\* declined overwrite comes before the source is read); newFile is the target
\* path on success only.
C19_ConvertPipeline ==
    [][(Convert \/ ExportFromYw) =>
           /\ ret' \in {"ok", "error"}
           /\ StepsInOrder(exp'.steps)
           /\ "target.merge" \in Range(exp'.steps)
                  => ReadCall(novel, tree, file, locked).ret = "ok"
           /\ "source.read" \notin Range(exp'.steps) => UNCHANGED <<novel, tree>>
           /\ "target.merge" \notin Range(exp'.steps) => exp'.target = exp.target
           /\ ret' = "ok" => exp'.steps = ConvertSteps
           /\ ret' = "error" => exp'.file = exp.file
           /\ op' = "export_from_yw" => (exp'.newFile # None <=> ret' = "ok")
           /\ op' = "convert" => exp'.newFile = exp.newFile]_vars


----------------------------------------------------------------------------
(* Decoding, merging, splitting and reading again *)

\* the kind a type code names
KindOfCode(leaf) ==
    IF Text(leaf) = Some(<< "2" >>) THEN 2
    ELSE IF Text(leaf) = Some(<< "1" >>) THEN 1
    ELSE 0

\* the kind by the precedence of the signals: ChapterType, then Type, then
\* the bare Unused flag
KindBySignals(chp) ==
    IF Found(chp.ChapterType) THEN KindOfCode(chp.ChapterType)
    ELSE IF Found(chp.Type) THEN KindOfCode(chp.Type)
    ELSE IF chp.Unused THEN 3
    ELSE 0

\* C21. Chapter kind decoding precedence: after a read every chapter has
\* exactly one of the four kinds: the kind its ChapterType code names if it
\* has one, whatever Type and Unused say; else the kind its Type code names,
\* whatever Unused says; else Unused if it has the Unused flag; else Normal.
C21_ChapterKindDecoding ==
    (op = "read" /\ ret = "ok") =>
        \A ch \in Range(novel.srtChapters) :
            /\ novel.chapters[ch].chType \in {Some(k) : k \in 0..3}
            /\ novel.chapters[ch].chType
                   = Some(KindBySignals(ById(Val(file).root.CHAPTERS, ch)))


\* a collection after a merge: the order list and the keys of the map are
\* the source's order list if that is not empty, else list and map are as the
\* merge found them
OrderAdopted(srt, dict, src, tgt, new) ==
    IF src[srt] # << >>
    THEN new[srt] = src[srt] /\ DOMAIN new[dict] = Range(src[srt])
    ELSE new[srt] = tgt[srt] /\ new[dict] = tgt[dict]

\* the order list of the source is not empty
Brings(srt) == source[srt] # << >>

\* C22. Merge adopts the source ordering of the reference collections: a
\* merge that has read its file completes when the source's order list of
\* locations, items, characters or project notes is not empty, and then the
\* target's order list is the source's and the keys of the target's map are
\* the ids of that list; a collection whose source order list is empty keeps
\* the order list and the map it had before the merge.
C22_MergeOrder ==
    (op = "merge" /\ ret # "error") =>
        /\ (Brings("srtLocations") \/ Brings("srtItems") \/ Brings("srtCharacters")
                \/ Brings("srtPrjNotes")) => ret = "ok"
        /\ ret = "ok" =>
               /\ OrderAdopted("srtLocations", "locations", source, pre.target, novel)
               /\ OrderAdopted("srtItems", "items", source, pre.target, novel)
               /\ OrderAdopted("srtCharacters", "characters", source, pre.target, novel)
               /\ OrderAdopted("srtPrjNotes", "projectNotes", source, pre.target, novel)


NoDuplicates(lst) == \A i, j \in 1..Len(lst) : lst[i] = lst[j] => i = j

\* the ids of the set are in the lists a and b in the same relative order
SameRelativeOrder(ids, a, b) ==
    \A x, y \in ids :
        (InList(x, a) /\ InList(y, a) /\ InList(x, b) /\ InList(y, b))
            => (index(a, x) < index(a, y) <=> index(b, x) < index(b, y))

\* the scene order of a chapter, empty for a chapter the novel does not hold
ScenesOf(n, ch) == IF ch \in DOMAIN n.chapters THEN n.chapters[ch].srtScenes ELSE << >>

\* the scene order new of a chapter reconciles the scene order old that the
\* target had with the scene order src of the source
Reconciled(src, old, new) ==
    /\ Range(src) \subseteq Range(new)
    /\ NoDuplicates(new)
    /\ SameRelativeOrder(Range(new) \ Range(old), src, new)
    /\ SameRelativeOrder(Range(old) \cap Range(new), old, new)

\* C23. Scene-order reconciliation: after a merge, before the splitting, the
\* scene order of every chapter of the source holds in the target every id of
\* the source's scene order, without duplicates, the newly inserted ids in the
\* relative order of the source and the ids the target had in that chapter in
\* their relative order of before the merge.
C23_SceneOrder ==
    (op = "merge" /\ ret = "ok") =>
        \A ch \in DOMAIN source.chapters :
            Reconciled(source.chapters[ch].srtScenes, ScenesOf(pre.target, ch),
                       ScenesOf(pre.split, ch))


\* the chapters of a novel that list the scene in their scene order
ChaptersListing(n, sc) == {ch \in DOMAIN n.chapters : InList(sc, n.chapters[ch].srtScenes)}

\* every scene id is in the scene order of at most one chapter
ListedOnce(n) == \A sc \in Ids : Cardinality(ChaptersListing(n, sc)) <= 1

\* C24. A moved scene leaves its old chapter: when every scene id is in at
\* most one chapter's scene order in the target and in the source before a
\* merge, it is so in the target after the merge; a scene that the source
\* lists under another chapter than the target did is no longer listed under
\* its old chapter, whether or not the source holds that chapter.
C24_MovedScene ==
    (op = "merge" /\ ret = "ok" /\ ListedOnce(pre.target) /\ ListedOnce(source)) =>
        /\ ListedOnce(novel)
        /\ \A sc \in Ids :
               \A old \in ChaptersListing(pre.target, sc) :
                   ChaptersListing(source, sc) \ {old} # {}
                       => old \notin ChaptersListing(novel, sc)


\* the scene ids that the scene orders of the chapters list
ListedScenes(n) ==
    UNION {Range(n.chapters[ch].srtScenes) : ch \in Range(n.srtChapters) \cap DOMAIN n.chapters}

\* every id of the set is greater than every key
Beyond(ids, keys) == \A i \in ids : \A k \in keys : int(i) > int(k)

\* the chapter and the scene entries the novel had are still those entities
EntriesKept(old, new) ==
    /\ \A ch \in DOMAIN old.chapters :
           /\ ch \in DOMAIN new.chapters
           /\ [new.chapters[ch] EXCEPT !.srtScenes = << >>]
                  = [old.chapters[ch] EXCEPT !.srtScenes = << >>]
    /\ \A sc \in DOMAIN old.scenes :
           sc \in DOMAIN new.scenes /\ new.scenes[sc].title = old.scenes[sc].title

\* C25. Split id allocation: when split_scenes has returned, every chapter id
\* and scene id it created is greater than every key the chapter map, or the
\* scene map, held before the call, the created ids are pairwise distinct,
\* and no chapter or scene entry of before the call is overwritten.
C25_SplitIds ==
    (pre.ran /\ ret = "ok") =>
        /\ Beyond(Range(novel.srtChapters) \ Range(pre.split.srtChapters),
                  DOMAIN pre.split.chapters)
        /\ Beyond(ListedScenes(novel) \ ListedScenes(pre.split), DOMAIN pre.split.scenes)
        /\ NoDuplicates(novel.srtChapters)
        /\ \A ch \in Range(novel.srtChapters) : NoDuplicates(novel.chapters[ch].srtScenes)
        /\ EntriesKept(pre.split, novel)


\* split_scenes creates a scene from a scene of this content: a line is a
\* scene marker, or a line without '#' at its start follows a chapter or part
\* marker
CreatesScene(content) ==
    /\ Truthy(content)
    /\ LET lines == split(Val(content), "\n")
       IN  \/ \E i \in 1..Len(lines) : startswith(lines[i], SCENE_SEPARATOR)
           \/ \E i, j \in 1..Len(lines) :
                  /\ i < j
                  /\ startswith(lines[i], PART_SEPARATOR)
                  /\ ~startswith(lines[j], PART_SEPARATOR)

\* the scenes that split_scenes splits: listed by a chapter of the chapter
\* order, with a content that makes a scene
SplitParents(n) ==
    {sc \in ListedScenes(n) \cap DOMAIN n.scenes : CreatesScene(n.scenes[sc].sceneContent)}

\* the text without the warning token at its start, if it has one
Unwarned(text) ==
    IF startswith(text, WARNING) THEN SubSeq(text, Len(WARNING) + 1, Len(text)) ELSE text

\* the field of a split parent: the warning token once and then the text, or
\* empty as it was
WarnedOnce(old, new) ==
    IF Truthy(old)
    THEN /\ new = Some(WARNING \o Unwarned(Val(old)))
         /\ ~startswith(Unwarned(Val(new)), WARNING)
    ELSE new = old

\* C26. Warning token exactly once: when split_scenes has returned, however
\* often it split a parent scene and however many merge and split passes went
\* before, each non-empty desc, goal, conflict and outcome of a split parent
\* scene starts with exactly one copy of the warning token, and the empty
\* ones are still empty.
C26_WarningOnce ==
    (pre.ran /\ ret = "ok") =>
        \A sc \in SplitParents(pre.split) :
            \A f \in {"desc", "goal", "conflict", "outcome"} :
                WarnedOnce(pre.split.scenes[sc][f], novel.scenes[sc][f])

\* after an earlier merge, split and write, split_scenes made a scene from a
\* parent whose desc had the warning token of the earlier pass and whose goal
\* was empty
C26_Witness ==
    /\ pre.ran /\ ret = "ok" /\ op = "merge"
    /\ \E sc \in SplitParents(pre.split) :
           /\ Truthy(pre.split.scenes[sc].desc)
           /\ startswith(Val(pre.split.scenes[sc].desc), WARNING)
           /\ ~Truthy(pre.split.scenes[sc].goal)
           /\ DOMAIN novel.scenes # DOMAIN pre.split.scenes


\* the pieces of the text that a non-empty template of the set made for the id
MadeFor(text, templates, among, id) ==
    {i \in 1..Len(text) : text[i].id = id /\ text[i].tpl \in among \cap templates}

\* C27. Empty template means skip: when the template the precedence selects
\* for a chapter heading or for a scene is empty, the text holds nothing made
\* for that heading or scene; a Part-level Normal chapter whose part template
\* is empty has no heading in the text and takes no chapter number.
C27_EmptySkips ==
    Exported =>
        /\ \A ch \in Range(exp.target.srtChapters) :
               AllowedHeadings(exp.target, exp.target.chapters[ch]) \cap exp.cfg.templates = {}
                   => MadeFor(Val(exp.file), exp.cfg.templates, HeadingTemplates, ch) = {}
        /\ \A k \in 1..Len(exp.target.srtChapters) :
               \A sc \in Range(exp.target.chapters[exp.target.srtChapters[k]].srtScenes) :
                   AllowedSceneTemplates(exp.target, exp.target.scenes[sc],
                                         exp.target.chapters[exp.target.srtChapters[k]])
                       \cap exp.cfg.templates = {}
                       => MadeFor(Val(exp.file), exp.cfg.templates, SceneTemplates, sc) = {}


\* a date and a time, with a blank between them
WellFormedDateTime(text) ==
    /\ text # None
    /\ Len(split(Val(text), " ")) = 2
    /\ Contains(split(Val(text), " ")[1], "-") /\ ~Contains(split(Val(text), " ")[1], ":")
    /\ Contains(split(Val(text), " ")[2], ":") /\ ~Contains(split(Val(text), " ")[2], "-")

\* the scene's start as the combined field gives it: date and time from a
\* well-formed value and no day, hour and minute, no date and no time from a
\* malformed one
StartDecoded(scn, text) ==
    IF WellFormedDateTime(text)
    THEN /\ scn.date = Some(split(Val(text), " ")[1])
         /\ scn.time = Some(split(Val(text), " ")[2])
         /\ scn.day = None /\ scn.hour = None /\ scn.minute = None
    ELSE scn.date = None /\ scn.time = None

\* C28. Scene start time decoding: when read has run on a well-formed file
\* whose scene has the combined SpecificDateTime field, a well-formed value
\* gives the scene's date and time and Day, Hour and Minute are ignored; with
\* a malformed value (empty, or no date and time) the scene's date and time
\* are empty, and read completes for the whole file.
C28_StartTime ==
    (/\ op = "read" /\ file # None /\ Val(file).wellFormed /\ ~locked
     /\ \E id \in DOMAIN Val(file).root.SCENES : Found(Val(file).root.SCENES[id].SpecificDateTime))
        => /\ ret = "ok"
           /\ \A id \in DOMAIN Val(file).root.SCENES :
                  Found(Val(file).root.SCENES[id].SpecificDateTime)
                      => StartDecoded(novel.scenes[id], Text(Val(file).root.SCENES[id].SpecificDateTime))


\* the ids the novel lists in the order of a section; for the scenes, in the
\* scene orders of its chapters
OrderIds(n, section) ==
    IF section = "locations" THEN Range(n.srtLocations)
    ELSE IF section = "items" THEN Range(n.srtItems)
    ELSE IF section = "characters" THEN Range(n.srtCharacters)
    ELSE IF section = "projectNotes" THEN Range(n.srtPrjNotes)
    ELSE IF section = "scenes" THEN ListedScenes(n)
    ELSE Range(n.srtChapters)

\* the read after the removal has returned
ReadAgain == gone.stage = 1 /\ op = "read" /\ ret = "ok"

\* the write after that read has returned
WrittenAgain == gone.stage = 2 /\ op = "write" /\ ret = "ok"

\* C29. Omission destroys on re-read: when read has run again on the instance
\* after an entity (chapter, scene, location, item, character or project
\* note) was removed from the file, the entity is in no map and in no order
\* list of the novel, and the file a following write makes does not hold it.
C29_OmissionDestroys ==
    \A e \in gone.ids :
        /\ ReadAgain => e[2] \notin DOMAIN novel[e[1]] /\ e[2] \notin OrderIds(novel, e[1])
        /\ WrittenAgain => e[2] \notin FileIds(Val(file).root, e[1])


\* every scene of every chapter, in the order of the chapters
AllScenes(n) == SceneOrder(n, [reject |-> [chapters |-> {}, scenes |-> {}]], 1)

\* the lines of a content that are text: not empty, and no '#' at the start
TextLines(content) ==
    IF ~Truthy(content) THEN << >>
    ELSE LET IsText(line) == line # << >> /\ ~startswith(line, PART_SEPARATOR)
         IN  SelectSeq(split(Val(content), "\n"), IsText)

\* the text lines of the scenes from place i on that were made by the split,
\* up to the next scene that was there before
RECURSIVE CreatedLines(_, _, _, _)
CreatedLines(n, oldIds, order, i) ==
    IF i > Len(order) \/ order[i] \in oldIds THEN << >>
    ELSE TextLines(n.scenes[order[i]].sceneContent) \o CreatedLines(n, oldIds, order, i + 1)

\* C30. Split conserves text: when split_scenes has returned, the lines of
\* every scene it processed that do not start with '#' are, in their order,
\* the lines of that scene followed by the lines of the scenes made from it,
\* wherever the markers are, a chapter or part marker on the last line
\* included: no such line is lost or there twice.
C30_TextConserved ==
    (pre.ran /\ ret = "ok") =>
        \A i \in 1..Len(AllScenes(novel)) :
            (/\ AllScenes(novel)[i] \in DOMAIN pre.split.scenes
             /\ Truthy(pre.split.scenes[AllScenes(novel)[i]].sceneContent))
                => TextLines(pre.split.scenes[AllScenes(novel)[i]].sceneContent)
                       = TextLines(novel.scenes[AllScenes(novel)[i]].sceneContent)
                             \o CreatedLines(novel, DOMAIN pre.split.scenes, AllScenes(novel), i + 1)

====
